---------------------------- MODULE Spec2Model ----------------------------
(***************************************************************************)
(* A model of the schadeautos backend: the damage classifier, the market   *)
(* price service and deal scorer, the Marktplaats / SchadeAutos scraping   *)
(* pass with its persistence step, and the triggers that start a run.      *)
(*                                                                         *)
(* Money is counted in euro cents.  Texts are strings; substring tests and *)
(* lower-casing are computed character by character.                       *)
(***************************************************************************)
EXTENDS Integers, Sequences, FiniteSets, TLC

VARIABLES
    \* analyze_damage_text: the argument and the returned dict
    text, verdict,
    \* BackgroundScheduler and the callers of a run; failed_runs holds the
    \* callers whose run_scraping_sync has raised
    running, scraping_in_progress, pc, calls, runs, skips, failed_runs,
    \* MarketPriceService: the car asked about, its asking price, the cars
    \* table, the service's _price_cache and the last call with its result
    query, car_price, db_rows, price_cache, last,
    \* run_scraping_session: the source being scraped and where its
    \* _scrape_with_scraper call stands
    website, phase,
    \* MarktplaatsScraper.scrape_search_results: the loop index and locals
    i, consecutive_crashes, seen_urls, all_cars, candidates,
    \* the search terms whose result page was requested, in order
    searched,
    \* _scrape_with_scraper: the cars returned, those still to be processed,
    \* the counters, the cars table, the rows the session has not committed
    \* yet and the scraping_sessions table
    scraped_cars, todo, cars_added, cars_updated, cars, dirty,
    scraping_sessions,
    \* run_scraping_session: the result of each source and of the run
    results, run_result, pending_result,
    \* what happened during the run: the upserts made, the cars whose
    \* processing raised, the outcome of each detail page fetch of a URL and
    \* in how many searches (up to two) a URL was listed
    upserts, failed_cars, fetched, term_hits,
    \* whether the browser and the database session are open
    driver, db_session,
    \* the deal rating: a profit percentage and the rating each code path
    \* has computed for it
    profit_percentage, deal_rating,
    \* the field parsers: the scraped text and what each parser returned
    raw_text, cleaned,
    \* _extract_car_urls: the result page at hand and the candidates found
    \* in it
    search_page, extracted

damageVars == << text, verdict >>
schedVars  ==
    << running, scraping_in_progress, pc, calls, runs, skips, failed_runs >>
priceVars  == << query, car_price, db_rows, price_cache, last >>
scrapeVars ==
    << website, phase, searched, i, consecutive_crashes, seen_urls, all_cars, candidates,
       scraped_cars, todo, cars_added, cars_updated, cars, dirty,
       scraping_sessions, results, run_result, pending_result, upserts,
       failed_cars, fetched,
       term_hits, driver, db_session >>
ratingVars == << profit_percentage, deal_rating >>
cleanVars  == << raw_text, cleaned >>
extractVars == << search_page, extracted >>
vars ==
    << damageVars, schedVars, priceVars, scrapeVars, ratingVars, cleanVars,
       extractVars >>

notDamage == << schedVars, priceVars, scrapeVars, ratingVars, cleanVars, extractVars >>
notSched  == << damageVars, priceVars, scrapeVars, ratingVars, cleanVars, extractVars >>
notPrice  == << damageVars, schedVars, scrapeVars, ratingVars, cleanVars, extractVars >>
notScrape == << damageVars, schedVars, priceVars, ratingVars, cleanVars, extractVars >>
notRating == << damageVars, schedVars, priceVars, scrapeVars, cleanVars, extractVars >>
notExtract ==
    << damageVars, schedVars, priceVars, scrapeVars, ratingVars, cleanVars >>
notClean  == << damageVars, schedVars, priceVars, scrapeVars, ratingVars, extractVars >>

\* An optional value: Python's None is the empty sequence, a value v that
\* is present is << v >>
NULL == << >>
Some(v) == << v >>
Val(o) == o[1]

(***************************************************************************)
(* The parts of the program a specification leaves alone                   *)
(***************************************************************************)
DamageIdle ==
    /\ text = ""
    /\ verdict = NULL

RatingIdle ==
    /\ profit_percentage = << >>
    /\ deal_rating = << >>

CleanIdle ==
    /\ raw_text = ""
    /\ cleaned = << >>

ExtractIdle ==
    /\ search_page = << >>
    /\ extracted = << >>

SchedIdle ==
    /\ running = FALSE
    /\ scraping_in_progress = FALSE
    /\ pc = << >>
    /\ calls = << >>
    /\ runs = << >>
    /\ skips = << >>
    /\ failed_runs = { }

PriceIdle ==
    /\ query = << >>
    /\ car_price = 0
    /\ db_rows = << >>
    /\ price_cache = << >>
    /\ last = << >>

ScrapeIdle ==
    /\ website = ""
    /\ phase = ""
    /\ i = 0
    /\ consecutive_crashes = 0
    /\ seen_urls = { }
    /\ all_cars = << >>
    /\ candidates = << >>
    /\ scraped_cars = << >>
    /\ todo = << >>
    /\ cars_added = 0
    /\ cars_updated = 0
    /\ cars = << >>
    /\ dirty = << >>
    /\ scraping_sessions = << >>
    /\ results = << >>
    /\ run_result = << >>
    /\ pending_result = << >>
    /\ upserts = << >>
    /\ failed_cars = { }
    /\ fetched = << >>
    /\ term_hits = << >>
    /\ searched = << >>
    /\ driver = FALSE
    /\ db_session = FALSE

(***************************************************************************)
(* Bounds of the model                                                     *)
(***************************************************************************)
\* number of fragments a listing text is put together from
MaxFrags == 2
\* number of times each trigger is pulled
MaxCalls == 2

(***************************************************************************)
(* String helpers: str.lower() and the `in` operator on strings            *)
(***************************************************************************)
\* the lower-case letter of each upper-case letter
LowerOf ==
    ("A" :> "a") @@ ("B" :> "b") @@ ("C" :> "c") @@ ("D" :> "d") @@ ("E" :> "e")
    @@ ("F" :> "f") @@ ("G" :> "g") @@ ("H" :> "h") @@ ("I" :> "i") @@ ("J" :> "j")
    @@ ("K" :> "k") @@ ("L" :> "l") @@ ("M" :> "m") @@ ("N" :> "n") @@ ("O" :> "o")
    @@ ("P" :> "p") @@ ("Q" :> "q") @@ ("R" :> "r") @@ ("S" :> "s") @@ ("T" :> "t")
    @@ ("U" :> "u") @@ ("V" :> "v") @@ ("W" :> "w") @@ ("X" :> "x") @@ ("Y" :> "y")
    @@ ("Z" :> "z")

LowerChar(c) == IF c \in DOMAIN LowerOf THEN LowerOf[c] ELSE c

RECURSIVE LowerFrom(_, _)
LowerFrom(s, p) ==
    IF p > Len(s) THEN ""
    ELSE LowerChar(SubSeq(s, p, p)) \o LowerFrom(s, p + 1)

\* s.lower()
Lower(s) == LowerFrom(s, 1)

\* k in s
Contains(s, k) ==
    \E p \in 1..(Len(s) - Len(k) + 1) : SubSeq(s, p, p + Len(k) - 1) = k

\* any(k in s for k in list)
ContainsAny(s, list) == \E j \in 1..Len(list) : Contains(s, list[j])

(***************************************************************************)
(* scrapers/marktplaats_scraper.py: the lexicons                           *)
(***************************************************************************)
GOOD_DAMAGE_KEYWORDS ==
    << "zijschade", "zij schade", "zijkant schade", "zijkant beschadigd",
       "beide zijkanten", "zijkanten", "cosmetische schade",
       "lichte schade", "kleine schade", "lakschade", "lakbeschadiging",
       "verf schade", "deuk", "deukje", "deukjes", "deuken", "parkeerdeuk",
       "bumperdeuk", "kras", "krassen", "krasje", "krasjes", "bekrast",
       "bumper schade", "bumper beschadigd", "bumperschade", "hagelschade",
       "hagel schade", "plaatwerk schade", "plaatwerkschade",
       "carrosserie schade", "aanrijding", "aanrijdingsschade", "schade",
       "beschadigd", "beschadigde", "side damage", "cosmetic damage",
       "minor damage", "paint damage", "dent", "scratch", "bumper damage",
       "hail damage", "body damage" >>

SEVERE_DAMAGE_KEYWORDS ==
    << "motorschade", "motor defect", "motor kapot", "kapotte motor",
       "motor is kapot", "motor tikt", "motor rammelt",
       "versnellingsbak defect", "versnellingsbak kapot",
       "koppeling defect", "koppeling kapot", "turbo defect", "turbo kapot",
       "frame schade", "chassis schade", "constructie schade",
       "water schade", "waterschade", "brand schade", "brandschade",
       "ondergelopen", "total loss", "totaal verlies", "total-loss",
       "niet rijdend", "rijdt niet", "niet rijdbaar", "start niet",
       "spring niet aan", "airbag afgegaan", "airbag defect",
       "airbag deployed", "airbag eruit", "airbags afgegaan",
       "airbag geactiveerd", "autowrak", "sloop", "sloopauto",
       "engine damage", "engine failure", "gearbox damage", "flood damage",
       "fire damage", "structural damage", "frame damage", "total loss",
       "write-off", "salvage", "not running" >>

TECHNICAL_PROBLEM_PHRASES ==
    << "motor loopt niet", "motor slaat niet aan", "motor maakt geluid",
       "motor rookt", "olie lekt", "koelvloeistof lekt", "schakelt niet",
       "schakelproblemen", "bak kraakt", "elektrisch defect",
       "storing motor", "startmotor defect", "oververhit", "kop defect",
       "cilinderkop" >>

positive_signs ==
    << "technisch in orde", "technisch goed", "rijdt prima", "rijdt goed",
       "mechanisch in orde", "mechanisch goed", "loopt goed", "loopt prima",
       "motor loopt goed", "motor is goed", "geen technische",
       "alleen cosmetisch", "alleen optisch", "alleen uiterlijk",
       "schade is alleen", "verder in goede staat", "apk", "nieuwe apk" >>

(***************************************************************************)
(* scrapers/marktplaats_scraper.py: analyze_damage_text                    *)
(***************************************************************************)
\* the `for keyword in list: if keyword in text_lower: return` loop, from
\* position j on: the index of the first keyword found, 0 when none is
RECURSIVE FirstHit(_, _, _)
FirstHit(list, text_lower, j) ==
    IF j > Len(list) THEN 0
    ELSE IF Contains(text_lower, list[j]) THEN j
    ELSE FirstHit(list, text_lower, j + 1)

\* the `for kw in GOOD_DAMAGE_KEYWORDS: if kw in text_lower: append` loop
RECURSIVE CosmeticFound(_, _, _)
CosmeticFound(text_lower, j, cosmetic_found) ==
    IF j > Len(GOOD_DAMAGE_KEYWORDS) THEN cosmetic_found
    ELSE CosmeticFound(text_lower, j + 1,
             IF Contains(text_lower, GOOD_DAMAGE_KEYWORDS[j])
             THEN Append(cosmetic_found, GOOD_DAMAGE_KEYWORDS[j])
             ELSE cosmetic_found)

\* a variant of analyze_damage_text: the cosmetic lexicon is consulted before the severe one
analyze_damage_text_CosmeticFirst(t) ==
    LET text_lower == Lower(t)
        cosmetic_found == CosmeticFound(text_lower, 1, << >>)
        sev == FirstHit(SEVERE_DAMAGE_KEYWORDS, text_lower, 1)
    IN  IF cosmetic_found # << >>
        THEN [is_cosmetic |-> TRUE, reason |-> "Cosmetic damage found",
              damage_types |-> cosmetic_found]
        ELSE IF sev # 0
        THEN [is_cosmetic |-> FALSE,
              reason |-> "Severe damage: " \o SEVERE_DAMAGE_KEYWORDS[sev],
              damage_types |-> << SEVERE_DAMAGE_KEYWORDS[sev] >>]
        ELSE [is_cosmetic |-> FALSE, reason |-> "No damage keywords found",
              damage_types |-> << >>]

\* a variant: cosmetic only when the text also says the car drives well
analyze_damage_text_NeedsPositive(t) ==
    LET text_lower == Lower(t)
        cosmetic_found == CosmeticFound(text_lower, 1, << >>)
        has_positive == ContainsAny(text_lower, positive_signs)
    IN  IF ContainsAny(text_lower, SEVERE_DAMAGE_KEYWORDS)
           \/ ContainsAny(text_lower, TECHNICAL_PROBLEM_PHRASES)
        THEN [is_cosmetic |-> FALSE, reason |-> "Severe damage",
              damage_types |-> << >>]
        ELSE IF cosmetic_found # << >> /\ has_positive
        THEN [is_cosmetic |-> TRUE,
              reason |-> "Cosmetic damage found + drives well",
              damage_types |-> cosmetic_found]
        ELSE [is_cosmetic |-> FALSE, reason |-> "No damage keywords found",
              damage_types |-> << >>]

analyze_damage_text(t) ==
    LET text_lower == Lower(t)
        sev == FirstHit(SEVERE_DAMAGE_KEYWORDS, text_lower, 1)
        tech == FirstHit(TECHNICAL_PROBLEM_PHRASES, text_lower, 1)
        cosmetic_found == CosmeticFound(text_lower, 1, << >>)
        has_positive == ContainsAny(text_lower, positive_signs)
    IN  IF sev # 0
        THEN [is_cosmetic |-> FALSE,
              reason |-> "Severe damage: " \o SEVERE_DAMAGE_KEYWORDS[sev],
              damage_types |-> << SEVERE_DAMAGE_KEYWORDS[sev] >>]
        ELSE IF tech # 0
        THEN [is_cosmetic |-> FALSE,
              reason |-> "Technical problem: " \o TECHNICAL_PROBLEM_PHRASES[tech],
              damage_types |-> << TECHNICAL_PROBLEM_PHRASES[tech] >>]
        ELSE IF cosmetic_found # << >>
        THEN [is_cosmetic |-> TRUE,
              reason |-> "Cosmetic damage found"
                          \o (IF has_positive THEN " + drives well" ELSE ""),
              damage_types |-> cosmetic_found]
        ELSE [is_cosmetic |-> FALSE,
              reason |-> "No damage keywords found",
              damage_types |-> << >>]

(***************************************************************************)
(* Listing texts: a title and description put together from fragments of   *)
(* real listings, in any order, separated by a blank                       *)
(***************************************************************************)
Fragments ==
    { "Volkswagen Polo 2016", "Lakschade", "kleine deuk in portier",
      "MOTORSCHADE", "sloopauto", "motor maakt geluid", "Oververhit",
      "rijdt prima", "nieuwe APK", "hagelschade en krassen" }

RECURSIVE TextsOf(_)
TextsOf(n) ==
    IF n = 0 THEN { "" }
    ELSE LET shorter == TextsOf(n - 1)
         IN  shorter \cup { IF s = "" THEN f ELSE s \o " " \o f :
                              s \in shorter, f \in Fragments }

Texts == TextsOf(MaxFrags)

(***************************************************************************)
(* The classifier applied to a listing text                                *)
(***************************************************************************)
InitDamage ==
    /\ text \in Texts
    /\ verdict = NULL
    /\ SchedIdle
    /\ PriceIdle
    /\ ScrapeIdle
    /\ RatingIdle
    /\ CleanIdle
    /\ ExtractIdle

\* verdict = analyze_damage_text(text)
Analyze ==
    /\ verdict = NULL
    /\ verdict' = Some(analyze_damage_text(text))
    /\ UNCHANGED << text, notDamage >>

NextDamage == Analyze

SpecDamage == InitDamage /\ [][NextDamage]_vars

(***************************************************************************)
(* background_scheduler.py and main.py: what starts a pipeline run         *)
(*                                                                         *)
(* "scheduler" is the thread BackgroundScheduler.start creates,            *)
(* "immediate" a thread that calls run_immediate_scraping, and "api" the   *)
(* background task of POST /api/scraping/run.                              *)
(***************************************************************************)
JobCallers == { "scheduler", "immediate" }
ApiTasks == { "api" }
Callers == JobCallers \cup ApiTasks

\* where a caller is when it is not inside run_scraping_job
Home(t) == IF t = "scheduler" THEN "loop" ELSE "idle"

\* BackgroundScheduler.__init__; no thread yet, nothing triggered
\* BackgroundScheduler.__init__, and no request in flight
SchedStart ==
    /\ running = FALSE
    /\ scraping_in_progress = FALSE
    /\ pc = [t \in Callers |-> IF t = "scheduler" THEN "nothread" ELSE "idle"]
    /\ calls = [t \in Callers |-> 0]
    /\ runs = [t \in Callers |-> 0]
    /\ skips = [t \in Callers |-> 0]
    /\ failed_runs = { }

InitSched ==
    /\ SchedStart
    /\ DamageIdle
    /\ PriceIdle
    /\ ScrapeIdle
    /\ RatingIdle
    /\ CleanIdle
    /\ ExtractIdle

\* BackgroundScheduler.start: sets running and starts the thread, which
\* first sleeps for five minutes
Start ==
    /\ ~running
    /\ pc["scheduler"] \in { "nothread", "exited" }
    /\ running' = TRUE
    /\ pc' = [pc EXCEPT !["scheduler"] = "sleep"]
    /\ UNCHANGED << scraping_in_progress, calls, runs, skips, failed_runs, notSched >>

\* BackgroundScheduler.stop: clears running (the join waits for the thread)
Stop ==
    /\ running
    /\ running' = FALSE
    /\ UNCHANGED << scraping_in_progress, pc, calls, runs, skips, failed_runs, notSched >>

\* run_scheduler after the sleep: `if self.running: self.run_scraping_job()`
InitialRun ==
    /\ pc["scheduler"] = "sleep"
    /\ IF running /\ calls["scheduler"] < MaxCalls
       THEN /\ pc' = [pc EXCEPT !["scheduler"] = "check"]
            /\ calls' = [calls EXCEPT !["scheduler"] = @ + 1]
       ELSE /\ pc' = [pc EXCEPT !["scheduler"] = "loop"]
            /\ UNCHANGED calls
    /\ UNCHANGED << running, scraping_in_progress, runs, skips, failed_runs, notSched >>

\* `while self.running: schedule.run_pending()` with a job that is due
PendingJob ==
    /\ pc["scheduler"] = "loop"
    /\ running
    /\ calls["scheduler"] < MaxCalls
    /\ pc' = [pc EXCEPT !["scheduler"] = "check"]
    /\ calls' = [calls EXCEPT !["scheduler"] = @ + 1]
    /\ UNCHANGED << running, scraping_in_progress, runs, skips, failed_runs, notSched >>

\* the while loop of run_scheduler ends once running is false
ThreadExit ==
    /\ pc["scheduler"] = "loop"
    /\ ~running
    /\ pc' = [pc EXCEPT !["scheduler"] = "exited"]
    /\ UNCHANGED << running, scraping_in_progress, calls, runs, skips, failed_runs, notSched >>

\* run_immediate_scraping: return self.run_scraping_job()
RunImmediate ==
    /\ pc["immediate"] = "idle"
    /\ calls["immediate"] < MaxCalls
    /\ pc' = [pc EXCEPT !["immediate"] = "check"]
    /\ calls' = [calls EXCEPT !["immediate"] = @ + 1]
    /\ UNCHANGED << running, scraping_in_progress, runs, skips, failed_runs, notSched >>

\* a variant of the skip branch: the run is started although one is active
JobSkip_StartsAnyway(t) ==
    /\ pc[t] = "check"
    /\ scraping_in_progress
    /\ pc' = [pc EXCEPT ![t] = "running"]
    /\ runs' = [runs EXCEPT ![t] = @ + 1]
    /\ UNCHANGED << running, scraping_in_progress, calls, skips, failed_runs, notSched >>

\* run_scraping_job, line 18-20: `if self.scraping_in_progress: return`
JobSkip(t) ==
    /\ pc[t] = "check"
    /\ scraping_in_progress
    /\ pc' = [pc EXCEPT ![t] = Home(t)]
    /\ skips' = [skips EXCEPT ![t] = @ + 1]
    /\ UNCHANGED << running, scraping_in_progress, calls, runs, failed_runs, notSched >>

\* line 18 read the flag as false
JobPass(t) ==
    /\ pc[t] = "check"
    /\ ~scraping_in_progress
    /\ pc' = [pc EXCEPT ![t] = "set"]
    /\ UNCHANGED << running, scraping_in_progress, calls, runs, skips, failed_runs, notSched >>

\* line 22: self.scraping_in_progress = True
JobSetFlag(t) ==
    /\ pc[t] = "set"
    /\ scraping_in_progress' = TRUE
    /\ pc' = [pc EXCEPT ![t] = "sync"]
    /\ UNCHANGED << running, calls, runs, skips, failed_runs, notSched >>

\* line 25: run_scraping_sync() is called; the pipeline run is active
JobRun(t) ==
    /\ pc[t] = "sync"
    /\ pc' = [pc EXCEPT ![t] = "running"]
    /\ runs' = [runs EXCEPT ![t] = @ + 1]
    /\ UNCHANGED << running, scraping_in_progress, calls, skips, failed_runs, notSched >>

\* line 25 and lines 27-28: run_scraping_sync raises an Exception, which
\* the handler of run_scraping_job logs
JobRunRaises(t) ==
    /\ pc[t] = "running"
    /\ t \in JobCallers
    /\ pc' = [pc EXCEPT ![t] = "finally"]
    /\ failed_runs' = failed_runs \cup { t }
    /\ UNCHANGED << running, scraping_in_progress, calls, runs, skips, notSched >>

\* line 25-26: run_scraping_sync returned its summary
JobRunEnds(t) ==
    /\ pc[t] = "running"
    /\ t \in JobCallers
    /\ pc' = [pc EXCEPT ![t] = "finally"]
    /\ UNCHANGED << running, scraping_in_progress, calls, runs, skips, failed_runs, notSched >>

\* a variant of JobFinally: the flag is left as it is
JobFinally_KeepsFlag(t) ==
    /\ pc[t] = "finally"
    /\ pc' = [pc EXCEPT ![t] = Home(t)]
    /\ UNCHANGED << running, scraping_in_progress, calls, runs, skips,
                    failed_runs, notSched >>

\* line 29-30: finally: self.scraping_in_progress = False
JobFinally(t) ==
    /\ pc[t] = "finally"
    /\ scraping_in_progress' = FALSE
    /\ pc' = [pc EXCEPT ![t] = Home(t)]
    /\ UNCHANGED << running, calls, runs, skips, failed_runs, notSched >>

\* main.run_scraping: background_tasks.add_task(_run_scraping_task)
Post(a) ==
    /\ pc[a] = "idle"
    /\ calls[a] < MaxCalls
    /\ pc' = [pc EXCEPT ![a] = "task"]
    /\ calls' = [calls EXCEPT ![a] = @ + 1]
    /\ UNCHANGED << running, scraping_in_progress, runs, skips, failed_runs, notSched >>

\* main._run_scraping_task: await ScrapingService().run_scraping_session()
TaskRun(a) ==
    /\ pc[a] = "task"
    /\ pc' = [pc EXCEPT ![a] = "running"]
    /\ runs' = [runs EXCEPT ![a] = @ + 1]
    /\ UNCHANGED << running, scraping_in_progress, calls, skips, failed_runs, notSched >>

\* the session returned or raised; the task is over
TaskEnds(a) ==
    /\ pc[a] = "running"
    /\ pc' = [pc EXCEPT ![a] = "idle"]
    /\ UNCHANGED << running, scraping_in_progress, calls, runs, skips, failed_runs, notSched >>

NextSched ==
    \/ Start
    \/ Stop
    \/ InitialRun
    \/ PendingJob
    \/ ThreadExit
    \/ RunImmediate
    \/ \E t \in JobCallers : JobSkip(t)
    \/ \E t \in JobCallers : JobPass(t)
    \/ \E t \in JobCallers : JobSetFlag(t)
    \/ \E t \in JobCallers : JobRun(t)
    \/ \E t \in JobCallers : JobRunEnds(t)
    \/ \E t \in JobCallers : JobRunRaises(t)
    \/ \E t \in JobCallers : JobFinally(t)
    \/ \E a \in ApiTasks : Post(a)
    \/ \E a \in ApiTasks : TaskRun(a)
    \/ \E a \in ApiTasks : TaskEnds(a)

SpecSched == InitSched /\ [][NextSched]_vars

\* the callers inside ScrapingService.run_scraping_session
ActiveRuns == { t \in Callers : pc[t] = "running" }

(***************************************************************************)
(* market_price_service.py: MarketPriceService                             *)
(***************************************************************************)
\* self.fallback_prices, in euros
fallback_prices ==
    (<< "Volkswagen", "polo" >> :> 3450) @@ (<< "Volkswagen", "golf" >> :> 3450)
    @@ (<< "Volkswagen", "up" >> :> 3450) @@ (<< "Toyota", "yaris" >> :> 4500)
    @@ (<< "Toyota", "aygo" >> :> 4500) @@ (<< "Kia", "picanto" >> :> 2850)
    @@ (<< "Fiat", "500" >> :> 3000) @@ (<< "Suzuki", "swift" >> :> 2499)
    @@ (<< "Ford", "fiesta" >> :> 2248) @@ (<< "Renault", "clio" >> :> 1800)
    @@ (<< "Opel", "corsa" >> :> 1500) @@ (<< "Opel", "astra" >> :> 1500)
    @@ (<< "Hyundai", "i10" >> :> 2500) @@ (<< "Citroen", "c1" >> :> 2000)
    @@ (<< "Peugeot", "107" >> :> 2000)

\* get_market_price: baseline_year
baseline_year == 2020
\* _search_marktplaats_prices: `if price < 1000` and `if price > 30000`, euros
PriceFloor == 1000
PriceCeiling == 30000
\* _search_marktplaats_prices: return prices[:10]
MaxSamples == 10
\* _get_market_price_from_db: `if len(prices) >= 3`
MinDbSamples == 3

\* the damage words of _search_marktplaats_prices
PeerDamageWords ==
    << "schade", "damage", "beschadigd", "total loss", "defect", "kapot",
       "onderdelen", "parts" >>

Max(a, b) == IF a >= b THEN a ELSE b

RECURSIVE Pow(_, _)
Pow(b, k) == IF k = 0 THEN 1 ELSE b * Pow(b, k - 1)

\* sorted(data): insertion of x into a sorted sequence, and the sort itself
RECURSIVE Insert(_, _)
Insert(x, sorted) ==
    IF sorted = << >> THEN << x >>
    ELSE IF x <= Head(sorted) THEN << x >> \o sorted
    ELSE << Head(sorted) >> \o Insert(x, Tail(sorted))

RECURSIVE Sorted(_)
Sorted(data) ==
    IF data = << >> THEN << >> ELSE Insert(Head(data), Sorted(Tail(data)))

\* statistics.median of a non-empty list: the middle value, or the mean of
\* the two middle values (the amounts used are even numbers of cents)
median(data) ==
    LET d == Sorted(data)
        n == Len(d)
    IN  IF n % 2 = 1 THEN d[(n + 1) \div 2]
        ELSE (d[n \div 2] + d[n \div 2 + 1]) \div 2

\* the body of the `for listing in listings` loop: the listing's price in
\* cents when it counts as a peer price, NULL when it is skipped
PeerPrice(listing, year) ==
    LET combined == Lower(listing.title) \o " " \o Lower(listing.description)
        price_cents == listing.priceCents
        car_year == listing.constructionYear
    IN  IF ContainsAny(combined, PeerDamageWords) THEN NULL
        ELSE IF price_cents = NULL \/ price_cents = Some(0) THEN NULL
        ELSE IF Val(price_cents) < PriceFloor * 100 THEN NULL
        ELSE IF Val(price_cents) > PriceCeiling * 100 THEN NULL
        ELSE IF car_year # NULL /\ Val(car_year) # 0
                /\ (Val(car_year) < year - 1 \/ Val(car_year) > year + 1) THEN NULL
        ELSE price_cents

RECURSIVE PeerPrices(_, _, _)
PeerPrices(listings, year, prices) ==
    IF listings = << >> THEN prices
    ELSE LET p == PeerPrice(Head(listings), year)
         IN  PeerPrices(Tail(listings), year,
                        IF p = NULL THEN prices ELSE Append(prices, Val(p)))

\* _search_marktplaats_prices: the prices of the answer's listings that
\* pass the filters, at most ten; no prices when the answer is not a 200
\* or the request times out or fails
search_marktplaats_prices(response, year) ==
    IF response.status # 200 THEN << >>
    ELSE LET prices == PeerPrices(response.listings, year, << >>)
         IN  SubSeq(prices, 1, IF Len(prices) < MaxSamples THEN Len(prices)
                                ELSE MaxSamples)

\* a variant of fetch_live_market_price that caches found prices only
fetch_live_market_price_ForgetsFailure(cache, make, model, year, response) ==
    LET cache_key == << Lower(make), Lower(model), year >>
        prices == search_marktplaats_prices(response, year)
    IN  IF cache_key \in DOMAIN cache
        THEN [result |-> cache[cache_key], cache |-> cache,
              searched |-> FALSE, prices |-> << >>]
        ELSE IF prices # << >>
        THEN [result |-> Some(median(prices)),
              cache |-> (cache_key :> Some(median(prices))) @@ cache,
              searched |-> TRUE, prices |-> prices]
        ELSE [result |-> NULL, cache |-> cache,
              searched |-> TRUE, prices |-> prices]

\* fetch_live_market_price on cache `cache` when the Marktplaats API answers
\* `response`: the returned value, the cache afterwards, whether the API
\* was asked at all and the peer prices the median was taken of
fetch_live_market_price(cache, make, model, year, response) ==
    LET cache_key == << Lower(make), Lower(model), year >>
        prices == search_marktplaats_prices(response, year)
    IN  IF cache_key \in DOMAIN cache
        THEN [result |-> cache[cache_key], cache |-> cache,
              searched |-> FALSE, prices |-> << >>]
        ELSE IF prices # << >>
        THEN [result |-> Some(median(prices)),
              cache |-> (cache_key :> Some(median(prices))) @@ cache,
              searched |-> TRUE, prices |-> prices]
        ELSE [result |-> NULL,
              cache |-> (cache_key :> NULL) @@ cache,
              searched |-> TRUE, prices |-> prices]

\* a variant of get_market_price that compounds towards later years too
get_market_price_Unclamped(cache, make, model, year) ==
    LET cache_key == << Lower(make), Lower(model), year >>
        key == << make, Lower(model) >>
        years_diff == baseline_year - year
    IN  IF cache_key \in DOMAIN cache /\ cache[cache_key] # NULL
        THEN cache[cache_key]
        ELSE IF key \in DOMAIN fallback_prices
        THEN IF years_diff >= 0
             THEN Some((fallback_prices[key] * 100 * Pow(9, years_diff))
                         \div Pow(10, years_diff))
             ELSE Some((fallback_prices[key] * 100 * Pow(10, 0 - years_diff))
                         \div Pow(9, 0 - years_diff))
        ELSE NULL

\* get_market_price: the cached live price, else the static estimate, else
\* None.  In cents; exact while the year is at most two before the baseline
get_market_price(cache, make, model, year) ==
    LET cache_key == << Lower(make), Lower(model), year >>
        key == << make, Lower(model) >>
        years_diff == baseline_year - year
    IN  IF cache_key \in DOMAIN cache /\ cache[cache_key] # NULL
        THEN cache[cache_key]
        ELSE IF key \in DOMAIN fallback_prices
        THEN Some((fallback_prices[key] * 100 * Pow(9, Max(0, years_diff)))
                    \div Pow(10, Max(0, years_diff)))
        ELSE NULL

\* `if profit_percentage >= 50 ... elif >= 30 ... elif >= 15 ... else`,
\* the percentage being the fraction num / den with den > 0
deal_rating_of(num, den) ==
    IF num >= 50 * den THEN "excellent"
    ELSE IF num >= 30 * den THEN "good"
    ELSE IF num >= 15 * den THEN "fair"
    ELSE "poor"

\* a variant of calculate_deal_metrics: a price above market counts as 0 %
calculate_deal_metrics_Clamped(cache, make, model, year, price) ==
    LET market_price == get_market_price(cache, make, model, year)
        m == Val(market_price)
        num == Max(0, (m - price) * 100)
    IN  IF market_price = NULL \/ market_price = Some(0)
        THEN [market_price |-> NULL, profit_percentage |-> NULL,
              deal_rating |-> NULL]
        ELSE [market_price |-> market_price,
              profit_percentage |-> Some([num |-> num, den |-> m]),
              deal_rating |-> Some(deal_rating_of(num, m))]

\* a variant of calculate_deal_metrics: without a market price the car is
\* rated poor
calculate_deal_metrics_PoorWhenUnknown(cache, make, model, year, price) ==
    LET market_price == get_market_price(cache, make, model, year)
        m == Val(market_price)
        num == (m - price) * 100
    IN  IF market_price = NULL \/ market_price = Some(0)
        THEN [market_price |-> NULL, profit_percentage |-> NULL,
              deal_rating |-> Some("poor")]
        ELSE [market_price |-> market_price,
              profit_percentage |-> Some([num |-> num, den |-> m]),
              deal_rating |-> Some(deal_rating_of(num, m))]

\* calculate_deal_metrics.  profit_percentage = ((m - price) / m) * 100 is
\* kept as the fraction num / den = ((m - price) * 100) / m
calculate_deal_metrics(cache, make, model, year, price) ==
    LET market_price == get_market_price(cache, make, model, year)
        m == Val(market_price)
        num == (m - price) * 100
    IN  IF market_price = NULL \/ market_price = Some(0)
        THEN [market_price |-> NULL, profit_percentage |-> NULL,
              deal_rating |-> NULL]
        ELSE [market_price |-> market_price,
              profit_percentage |-> Some([num |-> num, den |-> m]),
              deal_rating |-> Some(deal_rating_of(num, m))]

(***************************************************************************)
(* scrapers/schadeautos_scraper.py: the market price of a make, model and  *)
(* year as scrape_search_results resolves it                               *)
(***************************************************************************)
\* column ILIKE '%value%'; a NULL column matches nothing
ILike(column, value) ==
    column # NULL /\ Contains(Lower(Val(column)), Lower(value))

RECURSIVE DbPrices(_, _, _, _)
DbPrices(rows, make, model, year) ==
    IF rows = << >> THEN << >>
    ELSE LET r == Head(rows)
             rest == DbPrices(Tail(rows), make, model, year)
         IN  IF /\ r.source_website = "marktplaats.nl"
                /\ ILike(r.make, make)
                /\ ILike(r.model, model)
                /\ r.year = Some(year)
                /\ r.market_price # NULL
                /\ r.market_price # Some(0)
             THEN << Val(r.market_price) >> \o rest
             ELSE rest

\* _get_market_price_from_db: the median market_price of the Marktplaats
\* cars of that make, model and year, when there are at least three
get_market_price_from_db(rows, make, model, year) ==
    LET prices == DbPrices(rows, make, model, year)
    IN  IF Len(prices) >= MinDbSamples THEN Some(median(prices)) ELSE NULL

\* _get_market_price_from_service: MarketPriceService().get_market_price,
\* on a new service, whose cache is empty
get_market_price_from_service(make, model, year) ==
    get_market_price(<< >>, make, model, year)

\* scrape_search_results, line 95-103: the cars table first, then the
\* service; None makes the scraper skip the year
schadeautos_market_price(rows, make, model, year) ==
    LET from_db == get_market_price_from_db(rows, make, model, year)
    IN  IF from_db # NULL /\ from_db # Some(0) THEN from_db
        ELSE LET from_service == get_market_price_from_service(make, model, year)
             IN  IF from_service # NULL /\ from_service # Some(0)
                 THEN from_service ELSE NULL

(***************************************************************************)
(* The market price service at work: one car is asked about, the           *)
(* Marktplaats API answers a lookup with one of a few result pages         *)
(***************************************************************************)
CarNames ==
    { << "Volkswagen", "Polo" >>, << "volkswagen", "polo" >>, << "Lada", "Niva" >> }

QueryYears == 2018..2021

\* asking prices, in cents
CarPrices == { 100000, 140000, 170000, 170100, 190000, 210000 }

Peer(title, cents, year) ==
    [title |-> title, description |-> "", priceCents |-> cents,
     constructionYear |-> year]

PeerA == Peer("Volkswagen Polo 1.2 TSI", Some(150000), Some(2019))
PeerB == Peer("VW Polo Comfortline", Some(200000), NULL)
PeerC == Peer("Polo 1.0 airco", Some(250000), Some(2020))
PeerD == Peer("Polo 1.4 highline", Some(3000000), Some(2019))
PeerDamaged == Peer("Polo met Schade", Some(120000), Some(2019))
PeerParts == Peer("Polo bumper", Some(99900), NULL)
PeerFloor == Peer("Polo basis", Some(100000), NULL)
PeerDear == Peer("Polo GTI R5", Some(3000100), NULL)
PeerOld == Peer("Polo 2012", Some(180000), Some(2012))
PeerNoPrice == Peer("Polo bieden", NULL, Some(2019))
PeerFree == Peer("Polo gratis", Some(0), Some(2019))

\* what the Marktplaats search API may answer
Responses ==
    { [status |-> 200, listings |-> << >>],
      [status |-> 503, listings |-> << PeerA, PeerB, PeerC >>],
      [status |-> 200, listings |-> << PeerB >>],
      [status |-> 200, listings |-> << PeerDamaged, PeerA, PeerParts, PeerB >>],
      [status |-> 200, listings |-> << PeerA, PeerB, PeerC >>],
      [status |-> 200, listings |-> << PeerFloor, PeerD, PeerB, PeerDear >>],
      [status |-> 200,
       listings |-> << PeerDamaged, PeerParts, PeerDear, PeerOld, PeerNoPrice,
                       PeerFree >>],
      [status |-> 200,
       listings |-> << PeerB, PeerB, PeerB, PeerB, PeerB, PeerB, PeerB, PeerB,
                       PeerB, PeerB, PeerD, PeerD, PeerD >>] }

Row(source, make, model, year, price) ==
    [source_website |-> source, make |-> make, model |-> model,
     year |-> year, market_price |-> price]

PoloRow(year, price) ==
    Row("marktplaats.nl", Some("Volkswagen"), Some("Polo"), Some(year), Some(price))

\* contents of the cars table
Databases ==
    { << >>,
      << PoloRow(2019, 500000), PoloRow(2019, 560000), PoloRow(2019, 520000) >>,
      << PoloRow(2019, 500000), PoloRow(2019, 560000),
         Row("schadeautos.nl", Some("Volkswagen"), Some("Polo"), Some(2019),
             Some(100000)),
         Row("marktplaats.nl", Some("Volkswagen"), NULL, Some(2019), Some(100000)),
         Row("marktplaats.nl", Some("Volkswagen"), Some("Polo"), Some(2019), NULL),
         PoloRow(2018, 400000), PoloRow(2018, 420000), PoloRow(2018, 440000),
         PoloRow(2018, 460000), PoloRow(2018, 480000) >>,
      << Row("marktplaats.nl", Some("Lada"), Some("Niva 4x4"), Some(2019),
             Some(300000)),
         Row("marktplaats.nl", Some("LADA"), Some("niva"), Some(2019),
             Some(320000)),
         Row("marktplaats.nl", Some("Lada"), Some("Niva"), Some(2019),
             Some(360000)) >> }

InitPrice ==
    /\ query \in { [make |-> c[1], model |-> c[2], year |-> y] :
                     c \in CarNames, y \in QueryYears }
    /\ car_price \in CarPrices
    /\ db_rows \in Databases
    /\ price_cache = << >>
    /\ last = [op |-> "none"]
    /\ DamageIdle
    /\ SchedIdle
    /\ ScrapeIdle
    /\ RatingIdle
    /\ CleanIdle
    /\ ExtractIdle

\* the spellings under which a caller may name the make and model asked
\* about
Spellings ==
    { c \in CarNames :
        Lower(c[1]) = Lower(query.make) /\ Lower(c[2]) = Lower(query.model) }

\* await service.fetch_live_market_price(make, model, year)
FetchLive ==
    \E response \in Responses, asked \in Spellings :
        LET r == fetch_live_market_price(price_cache, asked[1], asked[2],
                                         query.year, response)
        IN  /\ price_cache' = r.cache
            /\ last' = [op |-> "fetch_live_market_price", result |-> r.result,
                        searched |-> r.searched, prices |-> r.prices,
                        asked |-> asked]
            /\ UNCHANGED << query, car_price, db_rows, notPrice >>

\* service.get_market_price(make, model, year)
GetMarketPrice ==
    /\ last' = [op |-> "get_market_price",
                result |-> get_market_price(price_cache, query.make,
                                            query.model, query.year)]
    /\ UNCHANGED << query, car_price, db_rows, price_cache, notPrice >>

\* service.calculate_deal_metrics(make, model, year, car_price)
CalculateDealMetrics ==
    /\ last' = [op |-> "calculate_deal_metrics",
                result |-> calculate_deal_metrics(price_cache, query.make,
                               query.model, query.year, car_price)]
    /\ UNCHANGED << query, car_price, db_rows, price_cache, notPrice >>

\* SchadeautosScraper.scrape_search_results resolving the market price
SchadeautosMarketPrice ==
    /\ last' = [op |-> "schadeautos_market_price",
                result |-> schadeautos_market_price(db_rows, query.make,
                               query.model, query.year)]
    /\ UNCHANGED << query, car_price, db_rows, price_cache, notPrice >>

NextPrice ==
    \/ FetchLive
    \/ GetMarketPrice
    \/ CalculateDealMetrics
    \/ SchadeautosMarketPrice

SpecPrice == InitPrice /\ [][NextPrice]_vars

(***************************************************************************)
(* scrapers/marktplaats_scraper.py: _parse_car_details                     *)
(***************************************************************************)
\* car_makes, in the order of the dict.  The key and the names written with
\* a diaeresis or a caron are given in ASCII.
car_makes ==
    << << "volkswagen", "Volkswagen" >>, << "vw", "Volkswagen" >>,
       << "audi", "Audi" >>, << "bmw", "BMW" >>,
       << "mercedes", "Mercedes-Benz" >>, << "opel", "Opel" >>,
       << "ford", "Ford" >>, << "renault", "Renault" >>,
       << "peugeot", "Peugeot" >>, << "citroen", "Citroen" >>,
       << "toyota", "Toyota" >>, << "nissan", "Nissan" >>,
       << "honda", "Honda" >>, << "mazda", "Mazda" >>,
       << "hyundai", "Hyundai" >>, << "kia", "Kia" >>, << "volvo", "Volvo" >>,
       << "seat", "SEAT" >>, << "skoda", "Skoda" >>, << "fiat", "Fiat" >>,
       << "alfa romeo", "Alfa Romeo" >>, << "mini", "MINI" >>,
       << "smart", "Smart" >>, << "dacia", "Dacia" >>,
       << "suzuki", "Suzuki" >>, << "mitsubishi", "Mitsubishi" >>,
       << "porsche", "Porsche" >>, << "tesla", "Tesla" >> >>

\* the `for key, value in car_makes.items()` loop from entry j on
RECURSIVE ParseMake(_, _)
ParseMake(text_lower, j) ==
    IF j > Len(car_makes) THEN NULL
    ELSE IF Contains(text_lower, car_makes[j][1]) THEN Some(car_makes[j][2])
    ELSE ParseMake(text_lower, j + 1)

DigitOf ==
    ("0" :> 0) @@ ("1" :> 1) @@ ("2" :> 2) @@ ("3" :> 3) @@ ("4" :> 4)
    @@ ("5" :> 5) @@ ("6" :> 6) @@ ("7" :> 7) @@ ("8" :> 8) @@ ("9" :> 9)

IsDigit(c) == c \in DOMAIN DigitOf

\* \w of the regular expressions, for ASCII text
IsWordChar(c) ==
    \/ IsDigit(c)
    \/ c = "_"
    \/ c \in DOMAIN LowerOf
    \/ \E u \in DOMAIN LowerOf : LowerOf[u] = c

\* whether r'\b(20[0-2]\d|19[89]\d)\b' matches the four characters at p
YearAt(t, p) ==
    /\ p + 3 <= Len(t)
    /\ \/ /\ SubSeq(t, p, p + 1) = "20"
          /\ SubSeq(t, p + 2, p + 2) \in { "0", "1", "2" }
       \/ /\ SubSeq(t, p, p + 1) = "19"
          /\ SubSeq(t, p + 2, p + 2) \in { "8", "9" }
    /\ IsDigit(SubSeq(t, p + 3, p + 3))
    /\ p = 1 \/ ~IsWordChar(SubSeq(t, p - 1, p - 1))
    /\ p + 3 = Len(t) \/ ~IsWordChar(SubSeq(t, p + 4, p + 4))

\* re.search of the year pattern from position p on, and int() of the match
RECURSIVE ParseYear(_, _)
ParseYear(t, p) ==
    IF p + 3 > Len(t) THEN NULL
    ELSE IF YearAt(t, p)
    THEN Some(1000 * DigitOf[SubSeq(t, p, p)]
              + 100 * DigitOf[SubSeq(t, p + 1, p + 1)]
              + 10 * DigitOf[SubSeq(t, p + 2, p + 2)]
              + DigitOf[SubSeq(t, p + 3, p + 3)])
    ELSE ParseYear(t, p + 1)

\* _parse_car_details: make, model and year (the model is always None)
parse_car_details(t) ==
    [make |-> ParseMake(Lower(t), 1), model |-> NULL, year |-> ParseYear(t, 1)]

(***************************************************************************)
(* The listings on Marktplaats during a run: what the search preview and   *)
(* the detail page of each URL show, and the car the listing really is     *)
(***************************************************************************)
U1 == "https://www.marktplaats.nl/v/auto-s/volkswagen/a1-polo"
U2 == "https://www.marktplaats.nl/v/auto-s/opel/a2-corsa"
U3 == "https://www.marktplaats.nl/v/auto-s/ford/a3-fiesta"

Urls == { U1, U2, U3 }

Listings ==
    (U1 :> [title |-> "Volkswagen Polo 2018 lakschade",
            description |-> "kleine deuk in portier, rijdt prima",
            price |-> Some(500000),
            make |-> "Volkswagen", model |-> "Polo", year |-> 2018])
    @@ (U2 :> [title |-> "Opel Corsa 2019 met schade",
               description |-> "Motorschade, auto start niet",
               price |-> Some(90000),
               make |-> "Opel", model |-> "Corsa", year |-> 2019])
    @@ (U3 :> [title |-> "Ford Fiesta hagelschade",
               description |-> "bouwjaar 2019, 100% rijdbaar",
               price |-> NULL,
               make |-> "Ford", model |-> "Fiesta", year |-> 2019])

\* the URLs a search result page lists, in order
ResultPages ==
    { << >>, << U1, U2 >>, << U2, U3 >>, << U3, U1, U3 >> }

\* _extract_car_urls: the candidates of a result page
RECURSIVE extract_car_urls(_)
extract_car_urls(page) ==
    IF page = << >> THEN << >>
    ELSE << [url |-> Head(page), title |-> Listings[Head(page)].title,
             price |-> Listings[Head(page)].price] >>
         \o extract_car_urls(Tail(page))

\* _fetch_full_car_details once the detail page has arrived: None unless
\* the verdict on title and description is cosmetic, else the car
FullCarDetails ==
    [u \in Urls |->
        LET combined_text == Listings[u].title \o " " \o Listings[u].description
            analysis == analyze_damage_text(combined_text)
            parsed == parse_car_details(combined_text)
        IN  IF ~analysis.is_cosmetic THEN NULL
            ELSE Some([url |-> u,
                       source_website |-> "marktplaats.nl",
                       title |-> Listings[u].title,
                       price |-> Listings[u].price,
                       make |-> parsed.make,
                       model |-> parsed.model,
                       year |-> parsed.year,
                       damage_keywords |-> analysis.damage_types,
                       has_cosmetic_damage_only |-> TRUE])]

\* `if candidate['url'] in seen_urls`, a variant that never finds the URL,
\* and the test itself
AlreadySeen_Never(url, seen) == FALSE

AlreadySeen(url, seen) == url \in seen

\* the `for car in all_cars` loop that builds unique_cars
RECURSIVE unique_cars(_, _, _)
unique_cars(cars_in, seen, unique) ==
    IF cars_in = << >> THEN unique
    ELSE LET car == Head(cars_in)
         IN  IF car.url \notin seen
             THEN unique_cars(Tail(cars_in), seen \cup { car.url },
                              Append(unique, car))
             ELSE unique_cars(Tail(cars_in), seen, unique)

(***************************************************************************)
(* scraping_service.py: the cars table and the upsert of one scraped car   *)
(***************************************************************************)
\* datetime.utcnow() during the run; the rows already stored carry time 0
utcnow == 1

\* the keys of a scraped car whose value can be None
OptionalKeys == { "price", "make", "model", "year" }

\* the keys of a scraped car that the update loop copies: not first_seen,
\* a column of Car, and a value that is not None
CopiedKeys(car_data) ==
    { k \in DOMAIN car_data :
        k # "first_seen" /\ (k \in OptionalKeys => car_data[k] # NULL) }

\* a variant of the update that copies None values as well
UpdateCar_CopiesNone(existing_car, car_data) ==
    [k \in DOMAIN existing_car |->
        IF k = "last_updated" THEN utcnow
        ELSE IF k \in DOMAIN car_data /\ k # "first_seen" THEN car_data[k]
        ELSE existing_car[k]]

\* the `if existing_car` branch
UpdateCar(existing_car, car_data) ==
    [k \in DOMAIN existing_car |->
        IF k = "last_updated" THEN utcnow
        ELSE IF k \in CopiedKeys(car_data) THEN car_data[k]
        ELSE existing_car[k]]

\* the `else` branch: Car(...)
NewCar(car_data) ==
    [url |-> car_data.url,
     source_website |-> car_data.source_website,
     title |-> car_data.title,
     price |-> car_data.price,
     make |-> car_data.make,
     model |-> car_data.model,
     year |-> car_data.year,
     damage_keywords |-> car_data.damage_keywords,
     has_cosmetic_damage_only |-> car_data.has_cosmetic_damage_only,
     market_price |-> NULL,
     profit_percentage |-> NULL,
     deal_rating |-> NULL,
     first_seen |-> utcnow,
     last_updated |-> utcnow,
     is_active |-> TRUE]

\* a row stored by an earlier run
StoredRow(u, title, price) ==
    [url |-> u,
     source_website |-> "marktplaats.nl",
     title |-> title,
     price |-> price,
     make |-> Some("Volkswagen"),
     model |-> NULL,
     year |-> Some(2018),
     damage_keywords |-> << "deuk" >>,
     has_cosmetic_damage_only |-> TRUE,
     market_price |-> NULL,
     profit_percentage |-> NULL,
     deal_rating |-> NULL,
     first_seen |-> 0,
     last_updated |-> 0,
     is_active |-> TRUE]

\* the cars table before the run
Stores ==
    { << >>,
      (U1 :> StoredRow(U1, "Volkswagen Polo 2018 deuk", Some(550000)))
      @@ (U3 :> StoredRow(U3, "Ford Fiesta hagelschade", Some(130000))) }

\* the sources of run_scraping_session, in the order they are scraped
Websites == << "marktplaats.nl", "schadeautos.nl" >>

\* ScrapingService.search_terms
search_terms ==
    << "schade auto", "lakschade", "cosmetische schade", "hagelschade",
       "parkeerdeuk", "beschadigde auto", "lichte schade" >>

\* the search terms run_scraping_session hands to each source
TermsOf(w) == IF w = "marktplaats.nl" THEN search_terms ELSE << >>

\* session.commit(): the pending rows reach the table
Committed(table, pending) ==
    [u \in (DOMAIN table) \cup (DOMAIN pending) |->
        IF u \in DOMAIN pending THEN pending[u] ELSE table[u]]

\* number of entries of sequence s that satisfy url = u
RECURSIVE CountUrl(_, _)
CountUrl(s, u) ==
    IF s = << >> THEN 0
    ELSE (IF Head(s).url = u THEN 1 ELSE 0) + CountUrl(Tail(s), u)

(***************************************************************************)
(* One pipeline run: ScrapingService.run_scraping_session                  *)
(***************************************************************************)
\* the state in which run_scraping_session is entered
ScrapeStart ==
    /\ website = "marktplaats.nl"
    /\ phase = "begin"
    /\ i = 0
    /\ consecutive_crashes = 0
    /\ seen_urls = { }
    /\ all_cars = << >>
    /\ candidates = << >>
    /\ scraped_cars = << >>
    /\ todo = << >>
    /\ cars_added = 0
    /\ cars_updated = 0
    /\ cars \in Stores
    /\ dirty = << >>
    /\ scraping_sessions = << >>
    /\ results = << >>
    /\ run_result = NULL
    /\ pending_result = NULL
    /\ upserts = << >>
    /\ failed_cars = { }
    /\ fetched = [u \in Urls |-> << >>]
    /\ term_hits = [u \in Urls |-> 0]
    /\ searched = << >>
    /\ driver = FALSE
    /\ db_session = FALSE

InitScrape ==
    /\ ScrapeStart
    /\ DamageIdle
    /\ SchedIdle
    /\ PriceIdle
    /\ RatingIdle
    /\ CleanIdle
    /\ ExtractIdle

marktplaatsVars ==
    << searched, i, consecutive_crashes, seen_urls, all_cars, candidates, fetched,
       term_hits >>
storeVars == << cars, dirty, upserts, failed_cars, cars_added, cars_updated >>

\* _scrape_with_scraper, lines 31-43: the session is opened and the
\* ScrapingSession record of the source is committed as running
Begin ==
    /\ phase = "begin"
    /\ db_session' = TRUE
    /\ cars_added' = 0
    /\ cars_updated' = 0
    /\ scraping_sessions' =
           Append(scraping_sessions,
                  [website |-> website, status |-> "running",
                   started_at |-> Some(utcnow), completed_at |-> NULL,
                   cars_found |-> 0, cars_added |-> 0, cars_updated |-> 0,
                   error_message |-> NULL])
    /\ phase' = "setup"
    /\ UNCHANGED << website, marktplaatsVars, scraped_cars, todo, cars, dirty,
                    upserts, failed_cars, results, run_result, pending_result, driver,
                    notScrape >>

\* scraper.setup() starts the browser; scrape_search_results begins
SetupOk ==
    /\ phase = "setup"
    /\ driver' = TRUE
    /\ i' = 0
    /\ searched' = << >>
    /\ consecutive_crashes' = 0
    /\ seen_urls' = { }
    /\ all_cars' = << >>
    /\ candidates' = << >>
    /\ phase' = IF website = "marktplaats.nl" THEN "terms" ELSE "sa_terms"
    /\ UNCHANGED << website, fetched, term_hits, scraped_cars, todo, storeVars,
                    scraping_sessions, results, run_result, pending_result, db_session,
                    notScrape >>

\* scraper.setup() raises: the Chrome driver could not be started
SetupRaises ==
    /\ phase = "setup"
    /\ phase' = "except"
    /\ UNCHANGED << website, marktplaatsVars, scraped_cars, todo, storeVars,
                    scraping_sessions, results, run_result, pending_result, driver, db_session,
                    notScrape >>

\* `continue` and the end of an iteration of `for i, term in
\* enumerate(search_terms)`: the next term, or the end of the loop
NextTerm ==
    /\ i' = i + 1
    /\ phase' = IF i + 1 < Len(search_terms) THEN "terms" ELSE "unique"

\* `await self.restart_browser()`: neither BaseScraper nor MarktplaatsScraper
\* defines the method, the call raises AttributeError, which the handler
\* around it answers with `break`
RestartBrowserBreaks ==
    /\ phase' = "unique"
    /\ i' = i

\* lines 147-157: the head of an iteration at which a restart is due
MpRestart ==
    /\ phase = "terms"
    /\ i > 0 /\ i % 5 = 0
    /\ RestartBrowserBreaks
    /\ UNCHANGED << website, searched, consecutive_crashes, seen_urls, all_cars,
                    candidates, fetched, term_hits, scraped_cars, todo,
                    storeVars, scraping_sessions, results, run_result, pending_result, driver,
                    db_session, notScrape >>

\* lines 159-180: get_page returns no HTML for the search
MpSearchFails ==
    /\ phase = "terms"
    /\ ~(i > 0 /\ i % 5 = 0)
    /\ consecutive_crashes' = consecutive_crashes + 1
    /\ IF consecutive_crashes + 1 >= 3 THEN RestartBrowserBreaks ELSE NextTerm
    /\ searched' = Append(searched, search_terms[i + 1])
    /\ UNCHANGED << website, seen_urls, all_cars, candidates, fetched,
                    term_hits, scraped_cars, todo, storeVars,
                    scraping_sessions, results, run_result, pending_result, driver,
                    db_session, notScrape >>

\* lines 159-196: the search returns a result page
MpSearch ==
    /\ phase = "terms"
    /\ ~(i > 0 /\ i % 5 = 0)
    /\ \E page \in ResultPages :
         /\ consecutive_crashes' = 0
         /\ candidates' = extract_car_urls(page)
         /\ term_hits' =
                [u \in Urls |->
                    IF (\E k \in 1..Len(page) : page[k] = u) /\ term_hits[u] < 2
                    THEN term_hits[u] + 1 ELSE term_hits[u]]
         /\ IF page = << >> THEN NextTerm
            ELSE /\ phase' = "details"
                 /\ i' = i
    /\ searched' = Append(searched, search_terms[i + 1])
    /\ UNCHANGED << website, seen_urls, all_cars, fetched, scraped_cars, todo,
                    storeVars, scraping_sessions, results, run_result, pending_result, driver,
                    db_session, notScrape >>

\* the end of an iteration of `for candidate in candidates`
NextCandidate ==
    /\ candidates' = Tail(candidates)
    /\ IF Tail(candidates) = << >> THEN NextTerm
       ELSE /\ phase' = "details"
            /\ i' = i

\* lines 199-202: the candidate's URL was processed before
MpSkipSeen ==
    /\ phase = "details"
    /\ AlreadySeen(Head(candidates).url, seen_urls)
    /\ NextCandidate
    /\ UNCHANGED << website, searched, consecutive_crashes, seen_urls, all_cars, fetched,
                    term_hits, scraped_cars, todo, storeVars,
                    scraping_sessions, results, run_result, pending_result, driver,
                    db_session, notScrape >>

\* lines 203-208: the detail page arrives and the listing is judged
MpDetails ==
    /\ phase = "details"
    /\ ~AlreadySeen(Head(candidates).url, seen_urls)
    /\ LET url == Head(candidates).url
           car == FullCarDetails[url]
       IN  /\ seen_urls' = seen_urls \cup { url }
           /\ fetched' = [fetched EXCEPT ![url] = Append(@, "page")]
           /\ all_cars' = IF car # NULL THEN Append(all_cars, Val(car))
                          ELSE all_cars
    /\ NextCandidate
    /\ UNCHANGED << website, searched, consecutive_crashes, term_hits, scraped_cars,
                    todo, storeVars, scraping_sessions, results, run_result, pending_result,
                    driver, db_session, notScrape >>

\* a variant of MpDetailsFail: the URL of a failed fetch is not marked seen
MpDetailsFail_NotMarked ==
    /\ phase = "details"
    /\ ~AlreadySeen(Head(candidates).url, seen_urls)
    /\ \E outcome \in { "empty", "raise" } :
         LET url == Head(candidates).url
         IN  fetched' = [fetched EXCEPT ![url] = Append(@, outcome)]
    /\ NextCandidate
    /\ UNCHANGED << website, searched, consecutive_crashes, seen_urls, all_cars,
                    term_hits, scraped_cars, todo, storeVars, scraping_sessions,
                    results, run_result, pending_result, driver, db_session,
                    notScrape >>

\* lines 203-211 and 309-311: get_page returns no HTML for the detail page
\* ("empty"), or reading the page raises ("raise")
MpDetailsFail ==
    /\ phase = "details"
    /\ ~AlreadySeen(Head(candidates).url, seen_urls)
    /\ \E outcome \in { "empty", "raise" } :
         LET url == Head(candidates).url
         IN  /\ seen_urls' = seen_urls \cup { url }
             /\ fetched' = [fetched EXCEPT ![url] = Append(@, outcome)]
    /\ NextCandidate
    /\ UNCHANGED << website, searched, consecutive_crashes, all_cars, term_hits,
                    scraped_cars, todo, storeVars, scraping_sessions, results,
                    run_result, pending_result, driver, db_session, notScrape >>

\* lines 213-222 and the return into _scrape_with_scraper, lines 51-56
MpReturn ==
    /\ phase = "unique"
    /\ scraped_cars' = unique_cars(all_cars, { }, << >>)
    /\ todo' = scraped_cars'
    /\ phase' = "persist"
    /\ UNCHANGED << website, marktplaatsVars, storeVars, scraping_sessions,
                    results, run_result, pending_result, driver, db_session, notScrape >>

\* a variant of SaReturn: the list of the previous source is returned
SaReturn_KeepsCars ==
    /\ phase = "sa_terms"
    /\ TermsOf(website) = << >>
    /\ todo' = scraped_cars
    /\ phase' = "persist"
    /\ UNCHANGED << website, marktplaatsVars, storeVars, scraping_sessions,
                    scraped_cars, results, run_result, pending_result, driver,
                    db_session, notScrape >>

\* SchadeautosScraper.scrape_search_results with the empty list of terms
\* that run_scraping_session passes: the loop body is not entered
SaReturn ==
    /\ phase = "sa_terms"
    /\ TermsOf(website) = << >>
    /\ scraped_cars' = << >>
    /\ todo' = << >>
    /\ phase' = "persist"
    /\ UNCHANGED << website, marktplaatsVars, storeVars, scraping_sessions,
                    results, run_result, pending_result, driver, db_session, notScrape >>

\* lines 59-94: one scraped car is updated or added
ProcessCar ==
    /\ phase = "persist"
    /\ todo # << >>
    /\ LET car_data == Head(todo)
           url == car_data.url
       IN  IF url \in DOMAIN cars
           THEN /\ dirty' = (url :> UpdateCar(cars[url], car_data)) @@ dirty
                /\ cars_updated' = cars_updated + 1
                /\ cars_added' = cars_added
                /\ upserts' = Append(upserts, [kind |-> "update", url |-> url])
           ELSE /\ dirty' = (url :> NewCar(car_data)) @@ dirty
                /\ cars_added' = cars_added + 1
                /\ cars_updated' = cars_updated
                /\ upserts' = Append(upserts, [kind |-> "add", url |-> url])
    /\ todo' = Tail(todo)
    /\ UNCHANGED << website, phase, marktplaatsVars, scraped_cars, cars,
                    failed_cars, scraping_sessions, results, run_result, pending_result,
                    driver, db_session, notScrape >>

\* a variant of ProcessCarRaises: the car was counted before the error
ProcessCarRaises_StillCounted ==
    /\ phase = "persist"
    /\ todo # << >>
    /\ failed_cars' = failed_cars \cup { Head(todo).url }
    /\ cars_added' = cars_added + 1
    /\ todo' = Tail(todo)
    /\ UNCHANGED << website, phase, marktplaatsVars, scraped_cars, cars, dirty,
                    upserts, cars_updated, scraping_sessions, results,
                    run_result, pending_result, driver, db_session, notScrape >>

\* lines 95-97: processing the car raises, the loop goes on
ProcessCarRaises ==
    /\ phase = "persist"
    /\ todo # << >>
    /\ failed_cars' = failed_cars \cup { Head(todo).url }
    /\ todo' = Tail(todo)
    /\ UNCHANGED << website, phase, marktplaatsVars, scraped_cars, cars, dirty,
                    upserts, cars_added, cars_updated, scraping_sessions,
                    results, run_result, pending_result, driver, db_session, notScrape >>

\* the dict of a source whose pass succeeded, and the dict of one that
\* failed, whose counts read as r.get(key, 0) = 0
Success(w, found, added, updated) ==
    [website |-> w, success |-> TRUE, cars_found |-> found,
     cars_added |-> added, cars_updated |-> updated, error |-> NULL]

Failure(w) ==
    [website |-> w, success |-> FALSE, cars_found |-> 0, cars_added |-> 0,
     cars_updated |-> 0, error |-> Some("error")]

\* lines 99-116: the record is completed, everything is committed, the
\* result dict is about to be returned
Complete ==
    /\ phase = "persist"
    /\ todo = << >>
    /\ scraping_sessions' =
           [scraping_sessions EXCEPT ![Len(scraping_sessions)] =
               [@ EXCEPT !.status = "completed",
                         !.completed_at = Some(utcnow),
                         !.cars_found = Len(scraped_cars),
                         !.cars_added = cars_added,
                         !.cars_updated = cars_updated]]
    /\ cars' = Committed(cars, dirty)
    /\ dirty' = << >>
    /\ pending_result' = Some(Success(website, Len(scraped_cars), cars_added,
                                      cars_updated))
    /\ phase' = "finally"
    /\ UNCHANGED << website, marktplaatsVars, scraped_cars, todo, upserts,
                    failed_cars, cars_added, cars_updated, results, run_result,
                    driver, db_session, notScrape >>

\* line 106: session.commit() raises; the failed commit has rolled the
\* transaction back, the rows added or changed are gone from the session
CommitRaises ==
    /\ phase = "persist"
    /\ todo = << >>
    /\ dirty' = << >>
    /\ phase' = "except"
    /\ UNCHANGED << website, marktplaatsVars, scraped_cars, todo, cars,
                    upserts, failed_cars, cars_added, cars_updated,
                    scraping_sessions, results, run_result, pending_result,
                    driver, db_session, notScrape >>

\* lines 118-130: the record is marked failed and committed, the failure
\* dict is about to be returned
Except ==
    /\ phase = "except"
    /\ scraping_sessions' =
           [scraping_sessions EXCEPT ![Len(scraping_sessions)] =
               [@ EXCEPT !.status = "failed",
                         !.completed_at = Some(utcnow),
                         !.error_message = Some("error")]]
    /\ cars' = Committed(cars, dirty)
    /\ dirty' = << >>
    /\ pending_result' = Some(Failure(website))
    /\ phase' = "finally"
    /\ UNCHANGED << website, marktplaatsVars, scraped_cars, todo, upserts,
                    failed_cars, cars_added, cars_updated, results, run_result,
                    driver, db_session, notScrape >>

\* line 124: the session.commit() of the handler raises in its turn; the
\* exception leaves _scrape_with_scraper and nothing is returned
ExceptRaises ==
    /\ phase = "except"
    /\ dirty' = << >>
    /\ pending_result' = NULL
    /\ phase' = "finally"
    /\ UNCHANGED << website, marktplaatsVars, scraped_cars, todo, cars,
                    upserts, failed_cars, cars_added, cars_updated,
                    scraping_sessions, results, run_result, driver, db_session,
                    notScrape >>

\* run_scraping_session going on after a source: the next source, or the
\* summary after the last
NextSource ==
    IF website = Websites[1]
    THEN /\ website' = Websites[2]
         /\ phase' = "begin"
    ELSE /\ website' = website
         /\ phase' = "summary"

\* a variant of Finally: a source that failed ends the run
Finally_StopsAfterFailure ==
    /\ phase = "finally"
    /\ driver' = FALSE
    /\ db_session' = FALSE
    /\ results' = Append(results, IF pending_result # NULL
                                  THEN Val(pending_result)
                                  ELSE Failure(website))
    /\ pending_result' = NULL
    /\ IF pending_result # NULL /\ Val(pending_result).success
       THEN NextSource
       ELSE /\ website' = website
            /\ phase' = "summary"
    /\ UNCHANGED << marktplaatsVars, scraped_cars, todo, storeVars,
                    scraping_sessions, run_result, notScrape >>

\* lines 131-133, then lines 148-151 or 162-165 of run_scraping_session:
\* browser and session are closed; the dict returned is appended to
\* results, or the failure dict when an exception came out
Finally ==
    /\ phase = "finally"
    /\ driver' = FALSE
    /\ db_session' = FALSE
    /\ results' = Append(results, IF pending_result # NULL
                                  THEN Val(pending_result)
                                  ELSE Failure(website))
    /\ pending_result' = NULL
    /\ NextSource
    /\ UNCHANGED << marktplaatsVars, scraped_cars, todo, storeVars,
                    scraping_sessions, run_result, notScrape >>

\* line 132: scraper.close() raises on driver.quit(); session.close() is
\* not reached, the exception replaces whatever was to be returned
FinallyRaises ==
    /\ phase = "finally"
    /\ driver
    /\ results' = Append(results, Failure(website))
    /\ pending_result' = NULL
    /\ NextSource
    /\ UNCHANGED << marktplaatsVars, scraped_cars, todo, storeVars,
                    scraping_sessions, run_result, driver, db_session,
                    notScrape >>

\* sum(r.get(key, 0) for r in results)
RECURSIVE SumOf(_, _)
SumOf(rs, key) ==
    IF rs = << >> THEN 0 ELSE Head(rs)[key] + SumOf(Tail(rs), key)

\* run_scraping_session, lines 167-179
Summary ==
    /\ phase = "summary"
    /\ run_result' =
           Some([success |-> \A k \in 1..Len(results) : results[k].success,
                 cars_found |-> SumOf(results, "cars_found"),
                 cars_added |-> SumOf(results, "cars_added"),
                 cars_updated |-> SumOf(results, "cars_updated"),
                 results |-> results])
    /\ phase' = "done"
    /\ UNCHANGED << website, marktplaatsVars, scraped_cars, todo, storeVars,
                    scraping_sessions, results, pending_result, driver,
                    db_session, notScrape >>

\* scrape_search_results, line 195: an exception out of _extract_car_urls,
\* which no handler inside the adapter catches, ends the pass
ScrapeRaises ==
    /\ phase = "terms"
    /\ ~(i > 0 /\ i % 5 = 0)
    /\ phase' = "except"
    /\ UNCHANGED << website, marktplaatsVars, scraped_cars, todo, storeVars,
                    scraping_sessions, results, run_result, pending_result,
                    driver, db_session, notScrape >>

NextScrape ==
    \/ Begin
    \/ SetupOk
    \/ SetupRaises
    \/ MpRestart
    \/ MpSearchFails
    \/ MpSearch
    \/ MpSkipSeen
    \/ MpDetails
    \/ MpDetailsFail
    \/ MpReturn
    \/ ScrapeRaises
    \/ SaReturn
    \/ ProcessCar
    \/ ProcessCarRaises
    \/ Complete
    \/ CommitRaises
    \/ Except
    \/ ExceptRaises
    \/ Finally
    \/ FinallyRaises
    \/ Summary

SpecScrape == InitScrape /\ [][NextScrape]_vars

(***************************************************************************)
(* A scheduled run and BackgroundScheduler.stop: the scheduler thread      *)
(* executes one run_scraping_session while stop() may be called            *)
(***************************************************************************)
InitStop ==
    /\ SchedStart
    /\ ScrapeStart
    /\ DamageIdle
    /\ PriceIdle
    /\ RatingIdle
    /\ CleanIdle
    /\ ExtractIdle

\* BackgroundScheduler.start, for the first scheduled job of the thread
StartOnce ==
    /\ calls["scheduler"] = 0
    /\ Start

\* run_scraping_sync (scraping_service.py lines 181-185) executes the
\* session inside run_scraping_job, line 25; no step of the session reads
\* BackgroundScheduler.running
RunStep ==
    /\ pc["scheduler"] = "running"
    /\ NextScrape

\* run_scraping_sync returns the summary to run_scraping_job
RunReturns ==
    /\ phase = "done"
    /\ JobRunEnds("scheduler")

NextStop ==
    \/ StartOnce
    \/ Stop
    \/ InitialRun
    \/ ThreadExit
    \/ JobPass("scheduler")
    \/ JobSetFlag("scheduler")
    \/ JobRun("scheduler")
    \/ RunStep
    \/ RunReturns
    \/ JobFinally("scheduler")

SpecStop == InitStop /\ [][NextStop]_vars

(***************************************************************************)
(* The deal rating of a profit percentage on each code path                *)
(***************************************************************************)
\* SchadeautosScraper.scrape_search_results, lines 125-132:
\* `if profit_percentage >= 50 ... elif >= 30 ... else "fair"`
schadeautos_deal_rating(num, den) ==
    IF num >= 50 * den THEN "excellent"
    ELSE IF num >= 30 * den THEN "good"
    ELSE "fair"

\* SchadevoertuigenScraper.calculate_deal_rating:
\* `if profit_percentage >= 60 ... elif >= 40 ... elif >= 25 ... else`
calculate_deal_rating(num, den) ==
    IF num >= 60 * den THEN "excellent"
    ELSE IF num >= 40 * den THEN "good"
    ELSE IF num >= 25 * den THEN "fair"
    ELSE "poor"

\* the code paths that rate a deal
RatingPaths ==
    { "MarketPriceService", "SchadeautosScraper", "SchadevoertuigenScraper" }

\* the rating a path gives to the percentage num / den
RatingOn(path, num, den) ==
    IF path = "MarketPriceService" THEN deal_rating_of(num, den)
    ELSE IF path = "SchadeautosScraper" THEN schadeautos_deal_rating(num, den)
    ELSE calculate_deal_rating(num, den)

\* profit percentages in tenths of a percent, from -20.0 to 100.0
ProfitPercentages == { [num |-> n, den |-> 10] : n \in (0 - 200)..1000 }

InitRating ==
    /\ profit_percentage \in ProfitPercentages
    /\ deal_rating = [p \in RatingPaths |-> NULL]
    /\ DamageIdle
    /\ SchedIdle
    /\ PriceIdle
    /\ ScrapeIdle
    /\ CleanIdle
    /\ ExtractIdle

\* one code path rates the deal
Rate(path) ==
    /\ deal_rating[path] = NULL
    /\ deal_rating' =
           [deal_rating EXCEPT ![path] =
                Some(RatingOn(path, profit_percentage.num, profit_percentage.den))]
    /\ UNCHANGED << profit_percentage, notRating >>

NextRating == \E path \in RatingPaths : Rate(path)

SpecRating == InitRating /\ [][NextRating]_vars

(***************************************************************************)
(* scrapers/schadeautos_scraper.py: scrape_search_results called with      *)
(* search terms                                                            *)
(***************************************************************************)
MIN_YEAR == 2014
MAX_YEAR == 2019

\* the keys of MAKE_MAP that the terms below can meet, longest first, and
\* their proper names
MAKE_KEYS == << "volkswagen", "alfa romeo", "vw" >>
MAKE_MAP ==
    ("volkswagen" :> "Volkswagen") @@ ("alfa romeo" :> "Alfa Romeo")
    @@ ("vw" :> "Volkswagen")

\* s.startswith(k)
StartsWith(s, k) == Len(s) >= Len(k) /\ SubSeq(s, 1, Len(k)) = k

\* s.replace(a, b) for single characters
RECURSIVE ReplaceChar(_, _, _)
ReplaceChar(s, a, b) ==
    IF s = "" THEN ""
    ELSE (IF SubSeq(s, 1, 1) = a THEN b ELSE SubSeq(s, 1, 1))
         \o ReplaceChar(SubSeq(s, 2, Len(s)), a, b)

\* the position of the first space of s from p on, 0 when there is none
RECURSIVE FirstSpace(_, _)
FirstSpace(s, p) ==
    IF p > Len(s) THEN 0
    ELSE IF SubSeq(s, p, p) = " " THEN p
    ELSE FirstSpace(s, p + 1)

\* w.title() of a lower-case word
Title(w) ==
    IF w = "" THEN ""
    ELSE LET c == SubSeq(w, 1, 1)
         IN  (IF \E u \in DOMAIN LowerOf : LowerOf[u] = c
              THEN CHOOSE u \in DOMAIN LowerOf : LowerOf[u] = c
              ELSE c) \o SubSeq(w, 2, Len(w))

\* s.split()[0] of a text that does not begin with a space
FirstWord(s) ==
    IF FirstSpace(s, 1) = 0 THEN s ELSE SubSeq(s, 1, FirstSpace(s, 1) - 1)

\* _term_to_parts, for terms without outer or doubled spaces: the slugs and
\* proper names, NULL for (None, None, None, None)
RECURSIVE term_to_parts_from(_, _)
term_to_parts_from(term_lower, k) ==
    IF k > Len(MAKE_KEYS)
    THEN LET sp == FirstSpace(term_lower, 1)
             make == SubSeq(term_lower, 1, sp - 1)
             rest == SubSeq(term_lower, sp + 1, Len(term_lower))
         IN  IF sp = 0 THEN NULL
             ELSE Some([make_slug |-> make,
                        model_slug |-> ReplaceChar(rest, " ", "-"),
                        proper_make |-> IF make \in DOMAIN MAKE_MAP
                                        THEN MAKE_MAP[make] ELSE Title(make),
                        proper_model |-> Title(FirstWord(rest))])
    ELSE LET key == MAKE_KEYS[k]
             remainder == SubSeq(term_lower, Len(key) + 2, Len(term_lower))
         IN  IF StartsWith(term_lower, key \o " ") /\ remainder # ""
             THEN Some([make_slug |-> ReplaceChar(key, " ", "-"),
                        model_slug |-> ReplaceChar(remainder, " ", "-"),
                        proper_make |-> MAKE_MAP[key],
                        proper_model |-> Title(FirstWord(remainder))])
             ELSE term_to_parts_from(term_lower, k + 1)

term_to_parts(term) == term_to_parts_from(Lower(term), 1)

\* a dict returned by _extract_single_car: the title is the <h2> text and
\* the description the whole text of the link
SaCar(url, title, description, price, year) ==
    [url |-> url, source_website |-> "schadeautos.nl", title |-> title,
     description |-> description, price |-> price, make |-> NULL,
     model |-> NULL, year |-> year, has_cosmetic_damage_only |-> TRUE]

\* listings of schadeautos.nl, as extract_car_data returns them
SaListings ==
    { SaCar("https://www.schadeautos.nl/nl/schade/personenautos/o/1",
            "Volkswagen Polo 1.0 TSI",
            "Volkswagen Polo 1.0 TSI lakschade 2018 Benzine", Some(150000),
            Some(2018)),
      SaCar("https://www.schadeautos.nl/nl/schade/personenautos/o/2",
            "Volkswagen Polo 1.2 motorschade",
            "Volkswagen Polo 1.2 motorschade 2018 Benzine", Some(120000),
            Some(2018)),
      SaCar("https://www.schadeautos.nl/nl/schade/personenautos/o/3",
            "Volkswagen Polo GTI",
            "Volkswagen Polo GTI deuk 2018", Some(400000), Some(2018)),
      SaCar("https://www.schadeautos.nl/nl/schade/personenautos/o/4",
            "Lada Niva 1.7", "Lada Niva 1.7 krassen", Some(40000), NULL),
      SaCar("https://www.schadeautos.nl/nl/schade/personenautos/o/5",
            "Lada Niva 4x4", "Lada Niva 4x4 2019 Benzine", Some(100000),
            Some(2019)) }

\* the candidates of a search page: up to two listings
SaPages ==
    { << >> } \cup { << a >> : a \in SaListings }
    \cup { << a, b >> : a \in SaListings, b \in SaListings }

\* the terms of the call
sa_search_terms == << "volkswagen polo", "schadeauto", "lada niva" >>

\* lines 111-148, the loop over the candidates of one year: acc holds
\* seen_urls and all_cars
RECURSIVE SaYearCars(_, _, _, _, _, _)
SaYearCars(cands, year, market_price, proper_make, proper_model, acc) ==
    IF cands = << >> THEN acc
    ELSE LET candidate == Head(cands)
             price == Val(candidate.price)
             num == (market_price - price) * 100
             next ==
                 IF candidate.year # Some(year) \/ candidate.url \in acc.seen
                 THEN acc
                 ELSE IF \/ candidate.price = NULL
                         \/ price <= 50000
                         \/ price * 100 > market_price * 70
                 THEN [acc EXCEPT !.seen = @ \cup { candidate.url }]
                 ELSE [seen |-> acc.seen \cup { candidate.url },
                       cars |-> Append(acc.cars,
                           [candidate EXCEPT
                              !.make = IF @ # NULL THEN @ ELSE Some(proper_make),
                              !.model = IF @ # NULL THEN @ ELSE Some(proper_model)]
                           @@ [market_price |-> market_price,
                               profit_percentage |-> [num |-> num, den |-> market_price],
                               deal_rating |-> schadeautos_deal_rating(num, market_price)])]
         IN  SaYearCars(Tail(cands), year, market_price, proper_make,
                        proper_model, next)

\* lines 89-148, `for year in range(MIN_YEAR, MAX_YEAR + 1)`
RECURSIVE SaTermCars(_, _, _, _, _, _)
SaTermCars(cands, year, rows, proper_make, proper_model, acc) ==
    IF year > MAX_YEAR THEN acc
    ELSE LET market_price ==
                 schadeautos_market_price(rows, proper_make, proper_model, year)
             next ==
                 IF (\A p \in 1..Len(cands) : cands[p].year # Some(year))
                    \/ market_price = NULL
                 THEN acc
                 ELSE SaYearCars(cands, year, Val(market_price), proper_make,
                                 proper_model, acc)
         IN  SaTermCars(cands, year + 1, rows, proper_make, proper_model, next)

InitSchadeautos ==
    /\ website = "schadeautos.nl"
    /\ phase = "sa_terms"
    /\ i = 0
    /\ seen_urls = { }
    /\ all_cars = << >>
    /\ candidates = << >>
    /\ db_rows \in Databases
    /\ consecutive_crashes = 0
    /\ scraped_cars = << >>
    /\ todo = << >>
    /\ cars_added = 0
    /\ cars_updated = 0
    /\ cars = << >>
    /\ dirty = << >>
    /\ scraping_sessions = << >>
    /\ results = << >>
    /\ run_result = NULL
    /\ pending_result = NULL
    /\ upserts = << >>
    /\ failed_cars = { }
    /\ fetched = << >>
    /\ term_hits = << >>
    /\ searched = << >>
    /\ driver = TRUE
    /\ db_session = FALSE
    /\ query = << >>
    /\ car_price = 0
    /\ price_cache = << >>
    /\ last = << >>
    /\ DamageIdle
    /\ SchedIdle
    /\ RatingIdle
    /\ CleanIdle
    /\ ExtractIdle

saIdle ==
    << consecutive_crashes, scraped_cars, todo, storeVars, scraping_sessions,
       results, run_result, pending_result, fetched, term_hits, searched,
       driver, db_session, website, db_rows, query, car_price, price_cache,
       last, damageVars, schedVars, ratingVars, cleanVars, extractVars >>

\* lines 51-54: the term has no make and model; `continue`
SaSkipTerm ==
    /\ phase = "sa_terms"
    /\ i < Len(sa_search_terms)
    /\ term_to_parts(sa_search_terms[i + 1]) = NULL
    /\ i' = i + 1
    /\ UNCHANGED << phase, seen_urls, all_cars, candidates, saIdle >>

\* lines 67-70: get_page returns no HTML; `continue`
SaSearchFails ==
    /\ phase = "sa_terms"
    /\ i < Len(sa_search_terms)
    /\ term_to_parts(sa_search_terms[i + 1]) # NULL
    /\ i' = i + 1
    /\ UNCHANGED << phase, seen_urls, all_cars, candidates, saIdle >>

\* lines 67-148: the page of the term is fetched, its candidates are
\* extracted and those priced at most 70 % of the market price of their
\* year are appended to all_cars (with three terms the restart of every
\* tenth search, lines 44-49, is never due)
SaSearch ==
    /\ phase = "sa_terms"
    /\ i < Len(sa_search_terms)
    /\ term_to_parts(sa_search_terms[i + 1]) # NULL
    /\ \E page \in SaPages :
         LET parts == Val(term_to_parts(sa_search_terms[i + 1]))
             r == SaTermCars(page, MIN_YEAR, db_rows, parts.proper_make,
                             parts.proper_model,
                             [seen |-> seen_urls, cars |-> all_cars])
         IN  /\ candidates' = page
             /\ seen_urls' = r.seen
             /\ all_cars' = r.cars
    /\ i' = i + 1
    /\ UNCHANGED << phase, saIdle >>

\* line 150-151: return all_cars
SaReturnCars ==
    /\ phase = "sa_terms"
    /\ i = Len(sa_search_terms)
    /\ phase' = "returned"
    /\ UNCHANGED << i, seen_urls, all_cars, candidates, saIdle >>

NextSchadeautos ==
    \/ SaSkipTerm
    \/ SaSearchFails
    \/ SaSearch
    \/ SaReturnCars

SpecSchadeautos == InitSchadeautos /\ [][NextSchadeautos]_vars

(***************************************************************************)
(* The field parsers: BaseScraper.clean_price, clean_mileage, clean_year   *)
(* and ProfitableCarScraper.clean_price                                    *)
(***************************************************************************)
\* the euro sign, written with an ASCII character
Euro == "$"

\* s.replace(a, b)
RECURSIVE Replace(_, _, _)
Replace(s, a, b) ==
    IF s = "" THEN ""
    ELSE IF Len(s) >= Len(a) /\ SubSeq(s, 1, Len(a)) = a
    THEN b \o Replace(SubSeq(s, Len(a) + 1, Len(s)), a, b)
    ELSE SubSeq(s, 1, 1) \o Replace(SubSeq(s, 2, Len(s)), a, b)

\* ''.join(filter(...)): the characters of s that are in keep
RECURSIVE KeepChars(_, _)
KeepChars(s, keep) ==
    IF s = "" THEN ""
    ELSE (IF SubSeq(s, 1, 1) \in keep THEN SubSeq(s, 1, 1) ELSE "")
         \o KeepChars(SubSeq(s, 2, Len(s)), keep)

Digits == DOMAIN DigitOf

\* s.count(c)
RECURSIVE CountChar(_, _)
CountChar(s, c) ==
    IF s = "" THEN 0
    ELSE (IF SubSeq(s, 1, 1) = c THEN 1 ELSE 0)
         + CountChar(SubSeq(s, 2, Len(s)), c)

\* the position of the last c in s, 0 when there is none
RECURSIVE LastPos(_, _, _)
LastPos(s, c, p) ==
    IF p = 0 THEN 0
    ELSE IF SubSeq(s, p, p) = c THEN p
    ELSE LastPos(s, c, p - 1)

\* the number a string of digits denotes
RECURSIVE DigitsValue(_)
DigitsValue(s) ==
    IF s = "" THEN 0
    ELSE 10 * DigitsValue(SubSeq(s, 1, Len(s) - 1))
         + DigitOf[SubSeq(s, Len(s), Len(s))]

\* the decimal number n / 10^scale without trailing zeros after the point
RECURSIVE Decimal(_, _)
Decimal(n, scale) ==
    IF scale > 0 /\ n % 10 = 0 THEN Decimal(n \div 10, scale - 1)
    ELSE [n |-> n, scale |-> scale]

\* int(s) of a string of digits: NULL stands for ValueError
int(s) == IF s = "" THEN NULL ELSE Some(DigitsValue(s))

\* float(s) of a string of digits and points: NULL stands for ValueError
float(s) ==
    LET point == LastPos(s, ".", Len(s))
        digits == KeepChars(s, Digits)
    IN  IF digits = "" \/ CountChar(s, ".") > 1 THEN NULL
        ELSE Some(Decimal(DigitsValue(digits),
                          IF point = 0 THEN 0 ELSE Len(s) - point))

\* how a call ends: it returns a value, None included, or it raises
Returns(value) == [raised |-> FALSE, value |-> value]
Raises == [raised |-> TRUE, value |-> NULL]

\* a variant of clean_price without the except clause
clean_price_Uncaught(price_text) ==
    IF price_text = "" THEN Returns(NULL)
    ELSE LET t1 == Replace(Replace(Replace(price_text, Euro, ""), ".", ""),
                           ",", ".")
             t2 == KeepChars(t1, Digits \cup { "." })
         IN  IF float(t2) = NULL THEN Raises ELSE Returns(float(t2))

\* BaseScraper.clean_price
clean_price(price_text) ==
    IF price_text = "" THEN Returns(NULL)
    ELSE LET t1 == Replace(Replace(Replace(price_text, Euro, ""), ".", ""),
                           ",", ".")
             t2 == KeepChars(t1, Digits \cup { "." })
         IN  Returns(float(t2))

\* BaseScraper.clean_mileage
clean_mileage(mileage_text) ==
    IF mileage_text = "" THEN Returns(NULL)
    ELSE LET t1 == Replace(Replace(Replace(mileage_text, "km", ""), ".", ""),
                           ",", "")
         IN  Returns(int(KeepChars(t1, Digits)))

\* BaseScraper.clean_year
clean_year(year_text) ==
    IF year_text = "" THEN Returns(NULL)
    ELSE LET year == int(KeepChars(year_text, Digits))
         IN  IF year = NULL THEN Returns(NULL)
             ELSE IF 1900 <= Val(year) /\ Val(year) <= 2024 THEN Returns(year)
             ELSE Returns(NULL)

\* ProfitableCarScraper.clean_price
profitable_clean_price(price_text) ==
    IF price_text = "" THEN Returns(NULL)
    ELSE LET t1 == Replace(Replace(Replace(price_text, Euro, ""), "EUR", ""),
                           ",-", "")
             t2 == KeepChars(t1, Digits \cup { ".", "," })
             has_comma == CountChar(t2, ",") > 0
             has_point == CountChar(t2, ".") > 0
             t3 == IF has_comma /\ has_point
                   THEN Replace(Replace(t2, ".", ""), ",", ".")
                   ELSE IF has_point
                   THEN IF /\ CountChar(t2, ".") = 1
                           /\ Len(t2) - LastPos(t2, ".", Len(t2)) = 3
                        THEN Replace(t2, ".", "")
                        ELSE t2
                   ELSE IF has_comma
                   THEN IF Len(t2) - LastPos(t2, ",", Len(t2)) <= 2
                        THEN Replace(t2, ",", ".")
                        ELSE Replace(t2, ",", "")
                   ELSE t2
         IN  IF t2 = "" THEN Returns(NULL) ELSE Returns(float(t3))

\* the characters of the scraped texts, and the longest text
Alphabet == { "0", "1", "9", ".", ",", Euro, "k" }
MaxLen == 4

RECURSIVE StringsUpTo(_)
StringsUpTo(n) ==
    IF n = 0 THEN { "" }
    ELSE LET shorter == StringsUpTo(n - 1)
         IN  shorter \cup { s \o c : s \in shorter, c \in Alphabet }

InitClean ==
    /\ raw_text \in StringsUpTo(MaxLen)
    /\ cleaned = [op |-> "none"]
    /\ DamageIdle
    /\ SchedIdle
    /\ PriceIdle
    /\ ScrapeIdle
    /\ RatingIdle
    /\ ExtractIdle

CleanPrice ==
    /\ cleaned' = [op |-> "BaseScraper.clean_price"] @@ clean_price(raw_text)
    /\ UNCHANGED << raw_text, notClean >>

CleanMileage ==
    /\ cleaned' = [op |-> "BaseScraper.clean_mileage"] @@ clean_mileage(raw_text)
    /\ UNCHANGED << raw_text, notClean >>

CleanYear ==
    /\ cleaned' = [op |-> "BaseScraper.clean_year"] @@ clean_year(raw_text)
    /\ UNCHANGED << raw_text, notClean >>

ProfitableCleanPrice ==
    /\ cleaned' = [op |-> "ProfitableCarScraper.clean_price"]
                  @@ profitable_clean_price(raw_text)
    /\ UNCHANGED << raw_text, notClean >>

NextClean ==
    \/ CleanPrice
    \/ CleanMileage
    \/ CleanYear
    \/ ProfitableCleanPrice

SpecClean == InitClean /\ [][NextClean]_vars

(***************************************************************************)
(* scrapers/marktplaats_scraper.py: _extract_car_urls on one result page   *)
(***************************************************************************)
\* a listing element of a result page: the text of its <h3>, <h2>, <h4>,
\* of its element with a title class and of its element with a price class
\* (NULL when there is no such element), the href of its link, the source
\* of its image, the text of its location element and its other text
ListingElem(h3, h2, h4, class_title, price_elem, href, rest) ==
    [h3 |-> h3, h2 |-> h2, h4 |-> h4, class_title |-> class_title,
     price_elem |-> price_elem, href |-> href, img |-> NULL,
     location_elem |-> NULL, rest |-> rest]

\* the text of an optional element followed by a space
TextOf(elem) == IF elem = NULL \/ elem = Some("") THEN "" ELSE Val(elem) \o " "

\* listing.get_text(separator=' ', strip=True)
FullText(l) ==
    TextOf(l.h3) \o TextOf(l.h2) \o TextOf(l.h4) \o TextOf(l.class_title)
    \o TextOf(l.price_elem) \o l.rest

\* the first position from p on that holds no space
RECURSIVE SkipSpaces(_, _)
SkipSpaces(s, p) ==
    IF p <= Len(s) /\ SubSeq(s, p, p) = " " THEN SkipSpaces(s, p + 1) ELSE p

\* the last position of the run of digits, points and commas that starts
\* at p; p - 1 when there is none
RECURSIVE RunEnd(_, _)
RunEnd(s, p) ==
    IF p <= Len(s) /\ SubSeq(s, p, p) \in Digits \cup { ".", "," }
    THEN RunEnd(s, p + 1) ELSE p - 1

\* re.search(r'<euro>\s*([\d.,]+)', s) from position p on: group(0) or NULL
RECURSIVE PriceMatch(_, _)
PriceMatch(s, p) ==
    IF p > Len(s) THEN NULL
    ELSE LET q == SkipSpaces(s, p + 1)
         IN  IF SubSeq(s, p, p) = Euro /\ RunEnd(s, q) >= q
             THEN Some(SubSeq(s, p, RunEnd(s, q)))
             ELSE PriceMatch(s, p + 1)

\* lines 254-264: the first of <h3>, <h2>, <h4> that exists gives the
\* title; when that title is empty the element with a title class does
extract_title(l) ==
    LET heading == IF l.h3 # NULL THEN Val(l.h3)
                   ELSE IF l.h2 # NULL THEN Val(l.h2)
                   ELSE IF l.h4 # NULL THEN Val(l.h4)
                   ELSE ""
    IN  IF heading # "" THEN heading
        ELSE IF l.class_title # NULL THEN Val(l.class_title)
        ELSE ""

\* lines 275-284: the element with a price class when there is one, else
\* the price pattern in the text of the listing
extract_price(l) ==
    IF l.price_elem # NULL THEN clean_price(Val(l.price_elem)).value
    ELSE LET price_match == PriceMatch(FullText(l), 1)
         IN  IF price_match # NULL THEN clean_price(Val(price_match)).value
             ELSE NULL

\* lines 229-238: the elements of the first strategy that finds any
select_listings(page) ==
    IF page.article # << >> THEN page.article
    ELSE IF page.li # << >> THEN page.li
    ELSE IF page.div # << >> THEN page.div
    ELSE IF page.a_autos # << >> THEN page.a_autos
    ELSE page.a_item

\* lines 240-296, the loop over the listings
RECURSIVE extract_candidates(_)
extract_candidates(listings) ==
    IF listings = << >> THEN << >>
    ELSE LET l == Head(listings)
             rest == extract_candidates(Tail(listings))
         IN  IF l.href = NULL \/ ~Contains(Val(l.href), "/v/auto-s/") THEN rest
             ELSE IF extract_title(l) = "" THEN rest
             ELSE << [url |-> Val(l.href), title |-> extract_title(l),
                      price |-> extract_price(l), image_url |-> l.img,
                      location |-> IF l.location_elem # NULL
                                   THEN Val(l.location_elem) ELSE ""] >>
                  \o rest

\* the listing elements a page can hold
ListingElems ==
    { ListingElem(h3, h2, h4, class_title, price_elem, href, rest) :
        h3 \in { NULL, Some(""), Some("Volkswagen Polo schade") },
        h2 \in { NULL, Some("Opel Corsa deuk") },
        h4 \in { NULL, Some("Ford Fiesta kras") },
        class_title \in { NULL, Some("Fiat 500 lakschade") },
        price_elem \in { NULL, Some("Bieden"), Some(Euro \o " 0,00"),
                         Some(Euro \o " 1.900,-") },
        href \in { NULL, Some(U1), Some("https://www.marktplaats.nl/help") },
        rest \in { "Utrecht", "vanaf " \o Euro \o " 1.500 Utrecht" } }

\* the result pages: what each of the five searches for listing elements
\* finds is nothing or the one listing of the page; a link that matches the
\* pattern of the last search matches that of the fourth
SearchPages ==
    UNION { { [article |-> a, li |-> b, div |-> c, a_autos |-> d, a_item |-> e] :
                a \in { << >>, << l >> }, b \in { << >>, << l >> },
                c \in { << >>, << l >> },
                d \in { << >>, << l >> },
                e \in { << >>, << l >> } } : l \in ListingElems }

InitExtract ==
    /\ search_page \in { page \in SearchPages :
                            page.a_item # << >> => page.a_autos # << >> }
    /\ extracted = NULL
    /\ DamageIdle
    /\ SchedIdle
    /\ PriceIdle
    /\ ScrapeIdle
    /\ RatingIdle
    /\ CleanIdle

\* candidates = self._extract_car_urls(html, self.base_url)
ExtractCarUrls ==
    /\ extracted = NULL
    /\ extracted' = Some(extract_candidates(select_listings(search_page)))
    /\ UNCHANGED << search_page, notExtract >>

NextExtract == ExtractCarUrls

SpecExtract == InitExtract /\ [][NextExtract]_vars

(***************************************************************************)
(* Properties                                                              *)
(***************************************************************************)
\* the least element of a non-empty set of numbers
Least(S) == CHOOSE j \in S : \A k \in S : j <= k

\* C1: at most one pipeline run (run_scraping_session) is active at any
\* time, whichever trigger started it: the scheduler's jobs, the run after
\* startup, run_immediate_scraping or the POST /api/scraping/run task.
C1_AtMostOneActiveRun == Cardinality(ActiveRuns) <= 1

\* C2: run_scraping_job invoked while scraping_in_progress is true returns
\* without calling run_scraping_sync and leaves the flag true, and the
\* request is not kept for later: every invocation of a caller is accounted
\* for as one run, one skip, or the invocation still on its way to run.
C2_BusyJobIsSkipped ==
    /\ [][\A t \in JobCallers :
            (pc[t] = "check" /\ scraping_in_progress /\ pc'[t] # pc[t])
               => /\ pc'[t] = Home(t)
                  /\ scraping_in_progress'
                  /\ runs'[t] = runs[t]]_vars
    /\ [](\A t \in JobCallers :
            calls[t] = runs[t] + skips[t]
                       + (IF pc[t] \in { "check", "set", "sync" } THEN 1 ELSE 0))

\* a job was skipped while another caller's run is active and the flag is
\* still set
C2_Witness ==
    \E t \in JobCallers, u \in JobCallers :
        /\ t # u
        /\ skips[t] > 0
        /\ pc[t] = Home(t)
        /\ pc[u] = "running"
        /\ scraping_in_progress

\* the Marktplaats pass of the run has returned and its cars have been
\* processed and committed
MarktplaatsDone ==
    /\ website = "marktplaats.nl"
    /\ phase = "finally"
    /\ pending_result # NULL
    /\ Val(pending_result).success

\* the listings whose title and description the classifier calls cosmetic
CosmeticListings ==
    { u \in Urls :
        analyze_damage_text(Listings[u].title \o " "
                            \o Listings[u].description).is_cosmetic }

\* C3 as stated: a URL listed by two or more searches of a run yields
\* exactly one car in the list scrape_search_results returns and exactly
\* one upsert in _scrape_with_scraper.
C3_ExactlyOneCarOneUpsert ==
    MarktplaatsDone =>
        \A u \in Urls :
            term_hits[u] >= 2 =>
                /\ CountUrl(scraped_cars, u) = 1
                /\ CountUrl(upserts, u) = 1

\* C3: a URL listed by two or more searches of a run yields at most one
\* car in the list scrape_search_results returns and at most one upsert;
\* its detail page is fetched once, and it yields a car exactly when that
\* fetch returned the page and the verdict on it is cosmetic, and an upsert
\* exactly when it yields a car and processing the car did not raise.
C3_AtMostOneCarOneUpsert ==
    \A u \in Urls :
        /\ CountUrl(scraped_cars, u) <= 1
        /\ CountUrl(upserts, u) <= 1
        /\ (MarktplaatsDone /\ term_hits[u] >= 2) =>
              /\ CountUrl(scraped_cars, u) = 1
                    <=> (fetched[u] = << "page" >> /\ u \in CosmeticListings)
              /\ CountUrl(upserts, u) = 1
                    <=> (CountUrl(scraped_cars, u) = 1 /\ u \notin failed_cars)

\* the Polo listing was listed by two searches and the pass returned it and
\* upserted it once
C3_Witness ==
    /\ MarktplaatsDone
    /\ term_hits[U1] >= 2
    /\ CountUrl(scraped_cars, U1) = 1
    /\ CountUrl(upserts, U1) = 1

\* C4: a text that contains a severe term or a technical phrase is never
\* cosmetic, whatever cosmetic terms or positive phrases it also contains;
\* severe terms go before technical phrases, and reason and damage_types
\* name the first term of the lexicon that the text contains.
C4_SevereOrTechnicalNotCosmetic ==
    verdict # NULL =>
        LET t == Lower(text)
            v == Val(verdict)
            sev == { j \in 1..Len(SEVERE_DAMAGE_KEYWORDS) :
                        Contains(t, SEVERE_DAMAGE_KEYWORDS[j]) }
            tech == { j \in 1..Len(TECHNICAL_PROBLEM_PHRASES) :
                        Contains(t, TECHNICAL_PROBLEM_PHRASES[j]) }
        IN  /\ (sev # {} \/ tech # {}) => v.is_cosmetic = FALSE
            /\ sev # {} =>
                 /\ v.reason = "Severe damage: " \o SEVERE_DAMAGE_KEYWORDS[Least(sev)]
                 /\ v.damage_types = << SEVERE_DAMAGE_KEYWORDS[Least(sev)] >>
            /\ (sev = {} /\ tech # {}) =>
                 /\ v.reason = "Technical problem: "
                                 \o TECHNICAL_PROBLEM_PHRASES[Least(tech)]
                 /\ v.damage_types = << TECHNICAL_PROBLEM_PHRASES[Least(tech)] >>

\* a text with both "motorschade" and "lakschade" has been classified
C4_Witness ==
    /\ verdict # NULL
    /\ Contains(Lower(text), "motorschade")
    /\ Contains(Lower(text), "lakschade")
    /\ Val(verdict).is_cosmetic = FALSE

\* C5: without severe term and technical phrase the verdict is cosmetic
\* exactly when a cosmetic term is a substring, damage_types lists every
\* cosmetic term matched, no match at all gives is_cosmetic = false with
\* empty damage_types and "No damage keywords found", and the positive
\* phrases show in the reason only.  The verdict is always a boolean.
C5_CosmeticIffCosmeticTerm ==
    verdict # NULL =>
        LET t == Lower(text)
            v == Val(verdict)
            matched == SelectSeq(GOOD_DAMAGE_KEYWORDS, LAMBDA k : Contains(t, k))
            positive == ContainsAny(t, positive_signs)
        IN  /\ v.is_cosmetic \in BOOLEAN
            /\ (~ContainsAny(t, SEVERE_DAMAGE_KEYWORDS)
                  /\ ~ContainsAny(t, TECHNICAL_PROBLEM_PHRASES)) =>
                 /\ v.is_cosmetic = (matched # << >>)
                 /\ v.damage_types = matched
                 /\ matched = << >> => v.reason = "No damage keywords found"
                 /\ (matched # << >> /\ positive) =>
                        v.reason = "Cosmetic damage found + drives well"
                 /\ (matched # << >> /\ ~positive) =>
                        v.reason = "Cosmetic damage found"

\* a cosmetic text that also says the car drives well has been classified
C5_Witness ==
    /\ verdict # NULL
    /\ text = "Lakschade rijdt prima"
    /\ Val(verdict) = [is_cosmetic |-> TRUE,
                       reason |-> "Cosmetic damage found + drives well",
                       damage_types |-> << "lakschade", "schade" >>]

\* the static estimate of get_market_price alone
StaticEstimate(make, model, year) == get_market_price(<< >>, make, model, year)

\* the live price the service has cached for the car asked about, if any
CachedLive ==
    LET cache_key == << Lower(query.make), Lower(query.model), query.year >>
    IN  IF cache_key \in DOMAIN price_cache THEN price_cache[cache_key] ELSE NULL

\* C6: for an asking price p > 0 and a resolved market price m > 0,
\* calculate_deal_metrics returns profit_percentage = (m - p) / m * 100,
\* negative when p > m, and the rating excellent from 50 %, good from 30 %,
\* fair from 15 %, poor below; (1000, 2000) gives 50 and excellent,
\* (1900, 2000) gives 5 and poor, (2100, 2000) gives -5.
C6_ProfitAndRating ==
    (last.op = "calculate_deal_metrics" /\ last.result.market_price # NULL) =>
        LET m == Val(last.result.market_price)
            p == car_price
            pct == Val(last.result.profit_percentage)
            rating == Val(last.result.deal_rating)
        IN  (p > 0 /\ m > 0) =>
              /\ pct = [num |-> (m - p) * 100, den |-> m]
              /\ p > m => pct.num < 0
              /\ rating = "excellent" <=> 2 * p <= m
              /\ rating = "good" <=> (2 * p > m /\ 10 * p <= 7 * m)
              /\ rating = "fair" <=> (10 * p > 7 * m /\ 20 * p <= 17 * m)
              /\ rating = "poor" <=> 20 * p > 17 * m
              /\ (p = 100000 /\ m = 200000) =>
                    (pct.num = 50 * pct.den /\ rating = "excellent")
              /\ (p = 190000 /\ m = 200000) =>
                    (pct.num = 5 * pct.den /\ rating = "poor")
              /\ (p = 210000 /\ m = 200000) => pct.num = (0 - 5) * pct.den

\* a car asking 2100 euros was scored against a market price of 2000 euros
C6_Witness ==
    /\ last.op = "calculate_deal_metrics"
    /\ car_price = 210000
    /\ last.result.market_price = Some(200000)
    /\ last.result.deal_rating = Some("poor")

\* C7: every car handed to the persistence step asks at most the cutoff
\* fraction, 0.75 at its most lenient, of the market price estimated for
\* the make, model and year of its listing.
C7_PersistedAtOrBelowCutoff ==
    \A k \in 1..Len(scraped_cars) :
        LET car == scraped_cars[k]
            listing == Listings[car.url]
            market_price == StaticEstimate(listing.make, listing.model,
                                           listing.year)
        IN  (car.price # NULL /\ market_price # NULL) =>
                Val(car.price) * 100 <= 75 * Val(market_price)

\* C8: when no market price can be resolved for the make, model and year
\* (no cached live price, no entry of the static table) the three metrics
\* are all null; in every result they are all null or all non-null.
C8_NullMetricsTogether ==
    last.op = "calculate_deal_metrics" =>
        LET r == last.result
            unresolved ==
                /\ CachedLive = NULL
                /\ << query.make, Lower(query.model) >> \notin DOMAIN fallback_prices
        IN  /\ \/ (r.market_price = NULL /\ r.profit_percentage = NULL
                     /\ r.deal_rating = NULL)
               \/ (r.market_price # NULL /\ r.profit_percentage # NULL
                     /\ r.deal_rating # NULL)
            /\ unresolved => r.market_price = NULL

\* a car without cached live price and without static estimate was scored
C8_Witness ==
    /\ last.op = "calculate_deal_metrics"
    /\ query.make = "Lada"
    /\ CachedLive = NULL
    /\ last.result = [market_price |-> NULL, profit_percentage |-> NULL,
                      deal_rating |-> NULL]

\* C9: the market price of a make, model and year is the live sample when
\* there is one, else the historical aggregate of the cars table, else the
\* static estimate, and null when none of the three resolves.
C9_PriorityOrder ==
    last.op \in { "get_market_price", "schadeautos_market_price" } =>
        LET live == CachedLive
            historical == get_market_price_from_db(db_rows, query.make,
                                                   query.model, query.year)
            static == StaticEstimate(query.make, query.model, query.year)
        IN  last.result = IF live # NULL THEN live
                          ELSE IF historical # NULL THEN historical
                          ELSE static

\* C10: a lookup that asked the API returns a live price, the median of
\* the peer prices left after the filters, only when at least 3 are left.
C10_LivePriceNeedsThreeSamples ==
    (last.op = "fetch_live_market_price" /\ last.searched) =>
        /\ last.result # NULL <=> Len(last.prices) >= 3
        /\ last.result # NULL => last.result = Some(median(last.prices))

\* C11: with only 2 historical samples for the exact make, model and year
\* and 5 for a neighbouring year, the estimator returns the neighbouring
\* year's median adjusted by 0.9 per year of offset.
C11_NeighbouringYearPreferred ==
    last.op \in { "get_market_price", "schadeautos_market_price" } =>
        \A n \in { query.year - 1, query.year + 1 } :
            LET exact == DbPrices(db_rows, query.make, query.model, query.year)
                near == DbPrices(db_rows, query.make, query.model, n)
            IN  (Len(exact) = 2 /\ Len(near) = 5) =>
                    last.result = Some((median(near) * 9) \div 10)

\* the upserts of the given kind made during the run
UpsertsOf(kind) == Cardinality({ k \in 1..Len(upserts) : upserts[k].kind = kind })

\* C12: run_scraping_session never raises and always returns a summary:
\* until it has returned a step of the run is always possible; when it has
\* returned, both sources were executed, each has one entry in results, a
\* failed one with success = false and an error message, and cars_found,
\* cars_added and cars_updated total the counts of the sources that
\* succeeded.
C12_RunAlwaysReturnsSummary ==
    /\ phase # "done" => ENABLED NextScrape
    /\ phase = "done" =>
         /\ run_result # NULL
         /\ Len(scraping_sessions) = Len(Websites)
         /\ Len(results) = Len(Websites)
         /\ \A k \in 1..Len(Websites) :
              /\ results[k].website = Websites[k]
              /\ ~results[k].success => results[k].error # NULL
         /\ Val(run_result).results = results
         /\ Val(run_result).success = (results[1].success /\ results[2].success)
         /\ Val(run_result).cars_found =
                IF results[1].success
                THEN Len(upserts) + Cardinality(failed_cars) ELSE 0
         /\ Val(run_result).cars_added =
                IF results[1].success THEN UpsertsOf("add") ELSE 0
         /\ Val(run_result).cars_updated =
                IF results[1].success THEN UpsertsOf("update") ELSE 0

\* the Marktplaats pass failed after it had upserted a car, the SchadeAutos
\* pass was executed all the same, and the run returned its summary
C12_Witness ==
    /\ phase = "done"
    /\ ~results[1].success
    /\ results[2].success
    /\ Len(upserts) > 0
    /\ Val(run_result).success = FALSE
    /\ Val(run_result).cars_added = 0

\* C13: in the Marktplaats term loop an empty search-page fetch adds one to
\* consecutive_crashes and a successful one resets it to 0; when it reaches
\* 3 the browser is recycled, the counter is back at 0 and the loop goes on
\* with the remaining terms: the pass ends only after the last term.
C13_RecycleAndContinue ==
    [][(phase = "terms" /\ ~(i > 0 /\ i % 5 = 0) /\ phase' # "except") =>
          /\ consecutive_crashes' \in { 0, consecutive_crashes + 1 }
          /\ consecutive_crashes' < 3
          /\ phase' = "unique" => i' = Len(search_terms)]_vars

\* C14: a Marktplaats pass that returns has requested the search page of
\* every search term it was given, in list order, whatever fetches failed
\* before: all 7 terms of ScrapingService in every run.
C14_EveryTermSearched ==
    (website = "marktplaats.nl" /\ phase = "persist") =>
        searched = search_terms

\* C15: once BackgroundScheduler.stop has been called while the scheduled
\* run is active, the run begins no further search-page fetch (searched does
\* not grow) and no further source (no new session record is opened)
C15_StopHonouredAtNextBoundary ==
    [][(~running /\ pc["scheduler"] = "running") =>
          /\ Len(searched') <= Len(searched)
          /\ Len(scraping_sessions') = Len(scraping_sessions)]_vars

\* C16: the code paths that have rated a profit percentage all gave it the
\* same rating
C16_SameRatingOnEveryPath ==
    \A a, b \in RatingPaths :
        (deal_rating[a] # NULL /\ deal_rating[b] # NULL) =>
            deal_rating[a] = deal_rating[b]

\* C17: every car in the list SchadeautosScraper.scrape_search_results
\* returns is one whose title plus description analyze_damage_text calls
\* cosmetic
C17_ReturnedCarsAreCosmetic ==
    (website = "schadeautos.nl" /\ phase = "returned") =>
        \A p \in 1..Len(all_cars) :
            analyze_damage_text(all_cars[p].title \o " "
                                \o all_cars[p].description).is_cosmetic

\* a step of the `for car_data in scraped_cars` loop that did not raise
UpsertStep ==
    /\ phase = "persist"
    /\ todo # << >>
    /\ todo' = Tail(todo)
    /\ failed_cars' = failed_cars

\* what the upsert of a URL not yet stored does: one new row, counted
\* under cars_added
AddsOneRow(url) ==
    /\ url \notin DOMAIN dirty
    /\ DOMAIN dirty' = DOMAIN dirty \cup { url }
    /\ dirty'[url].url = url
    /\ dirty'[url].first_seen = utcnow
    /\ cars_added' = cars_added + 1
    /\ cars_updated' = cars_updated

\* what the upsert of a stored URL does apart from the copied fields: no
\* new row, url and first_seen kept, last_updated refreshed, counted under
\* cars_updated
UpdatesRow(url) ==
    /\ DOMAIN dirty' \subseteq DOMAIN dirty \cup DOMAIN cars
    /\ dirty'[url].url = cars[url].url
    /\ dirty'[url].first_seen = cars[url].first_seen
    /\ dirty'[url].last_updated = utcnow
    /\ cars_updated' = cars_updated + 1
    /\ cars_added' = cars_added

\* C18 as stated: the upsert of a stored URL makes no new row, keeps url
\* and first_seen, overwrites every other field the scraped record carries
\* with the scraped value, refreshes last_updated and counts an update; the
\* upsert of a new URL makes one row and counts an add.
C18_UpdateOverwritesEveryField ==
    [][UpsertStep =>
         LET car_data == Head(todo)
             url == car_data.url
         IN  IF url \in DOMAIN cars
             THEN /\ UpdatesRow(url)
                  /\ \A k \in (DOMAIN car_data \cap DOMAIN cars[url])
                                 \ { "url", "first_seen" } :
                         dirty'[url][k] = car_data[k]
             ELSE AddsOneRow(url)]_vars

\* C18, amended: as above, but a field whose scraped value is None keeps
\* its stored value; the fields with a scraped value are overwritten.
C18_UpdateOverwritesScrapedValues ==
    [][UpsertStep =>
         LET car_data == Head(todo)
             url == car_data.url
         IN  IF url \in DOMAIN cars
             THEN /\ UpdatesRow(url)
                  /\ \A k \in (DOMAIN car_data \cap DOMAIN cars[url])
                                 \ { "url", "first_seen" } :
                         dirty'[url][k] =
                             IF k \in OptionalKeys /\ car_data[k] = NULL
                             THEN cars[url][k] ELSE car_data[k]
             ELSE AddsOneRow(url)]_vars

\* a stored car was seen again without a price: the stored price is kept,
\* the title is the scraped one and last_updated is refreshed
C18_Witness ==
    /\ U3 \in DOMAIN dirty
    /\ U3 \in DOMAIN cars
    /\ Listings[U3].price = NULL
    /\ cars[U3].price # NULL
    /\ dirty[U3].price = cars[U3].price
    /\ dirty[U3].make = Some("Ford")
    /\ dirty[U3].last_updated = utcnow
    /\ cars_updated >= 1

BaseParsers ==
    { "BaseScraper.clean_price", "BaseScraper.clean_mileage",
      "BaseScraper.clean_year" }

\* C19: clean_price, clean_mileage and clean_year of BaseScraper end, for
\* every text (the empty one, a currency sign alone, text without a digit),
\* by returning a value or None; none of them raises
C19_ParsersAreTotal ==
    cleaned.op \in BaseParsers => ~cleaned.raised

\* clean_price was given a text without any digit and returned None
C19_Witness ==
    /\ cleaned.op = "BaseScraper.clean_price"
    /\ raw_text \in { Euro, "k.", Euro \o "," }
    /\ ~cleaned.raised
    /\ cleaned.value = NULL

\* a text of digits, and the texts the Dutch convention speaks of: digits
\* with one point, with one comma, or with a point and then a comma
IsNumber(s) == s # "" /\ KeepChars(s, Digits) = s

PointAt(s) == LastPos(s, ".", Len(s))
CommaAt(s) == LastPos(s, ",", Len(s))
Before(s, p) == SubSeq(s, 1, p - 1)
After(s, p) == SubSeq(s, p + 1, Len(s))

OnlyPoint(s) ==
    /\ PointAt(s) > 0
    /\ IsNumber(Before(s, PointAt(s)))
    /\ IsNumber(After(s, PointAt(s)))

OnlyComma(s) ==
    /\ CommaAt(s) > 0
    /\ IsNumber(Before(s, CommaAt(s)))
    /\ IsNumber(After(s, CommaAt(s)))

PointAndComma(s) ==
    /\ CommaAt(s) > 0
    /\ OnlyPoint(Before(s, CommaAt(s)))
    /\ IsNumber(After(s, CommaAt(s)))

\* the value the Dutch convention gives such a text
DutchValue(s) ==
    IF PointAndComma(s)
    THEN Decimal(DigitsValue(KeepChars(s, Digits)), Len(s) - CommaAt(s))
    ELSE IF OnlyComma(s)
    THEN IF Len(s) - CommaAt(s) <= 2
         THEN Decimal(DigitsValue(KeepChars(s, Digits)), Len(s) - CommaAt(s))
         ELSE Decimal(DigitsValue(KeepChars(s, Digits)), 0)
    ELSE IF Len(s) - PointAt(s) = 3
         THEN Decimal(DigitsValue(KeepChars(s, Digits)), 0)
         ELSE Decimal(DigitsValue(KeepChars(s, Digits)), Len(s) - PointAt(s))

\* C20: for a text with a point and a comma the point is a thousands
\* separator and the comma the decimal mark; a lone comma is the decimal
\* mark when at most two digits follow it, a thousands separator otherwise;
\* a lone point is a thousands separator when exactly three digits follow
\* it, the decimal mark otherwise; BaseScraper.clean_price and
\* ProfitableCarScraper.clean_price both return that value
C20_DutchConvention ==
    (/\ cleaned.op \in { "BaseScraper.clean_price",
                         "ProfitableCarScraper.clean_price" }
     /\ PointAndComma(raw_text) \/ OnlyComma(raw_text) \/ OnlyPoint(raw_text))
        => /\ ~cleaned.raised
           /\ cleaned.value = Some(DutchValue(raw_text))

\* C21: a candidate _extract_car_urls emits has no price or a price above
\* zero
C21_EmittedPriceIsPositive ==
    extracted # NULL =>
        \A p \in 1..Len(Val(extracted)) :
            Val(extracted)[p].price # NULL => Val(Val(extracted)[p].price).n > 0

\* the first text among those of <h3>, <h2>, <h4> and the element with a
\* title class that is not empty
FirstTitle(l) ==
    IF l.h3 # NULL /\ l.h3 # Some("") THEN Val(l.h3)
    ELSE IF l.h2 # NULL /\ l.h2 # Some("") THEN Val(l.h2)
    ELSE IF l.h4 # NULL /\ l.h4 # Some("") THEN Val(l.h4)
    ELSE IF l.class_title # NULL THEN Val(l.class_title)
    ELSE ""

\* the price of the element with a price class when it can be parsed, else
\* the price the pattern finds in the text of the listing
FirstPrice(l) ==
    LET by_class == IF l.price_elem # NULL
                    THEN clean_price(Val(l.price_elem)).value ELSE NULL
        price_match == PriceMatch(FullText(l), 1)
    IN  IF by_class # NULL THEN by_class
        ELSE IF price_match # NULL THEN clean_price(Val(price_match)).value
        ELSE NULL

\* the elements of the first search that found any
FirstListings(page) ==
    LET found == { k \in 1..5 :
                     << page.article, page.li, page.div, page.a_autos,
                        page.a_item >>[k] # << >> }
    IN  IF found = { } THEN << >>
        ELSE << page.article, page.li, page.div, page.a_autos,
                page.a_item >>[Least(found)]

\* C26: the listing elements are those of the first search that found any,
\* and a listing with a link to a car gets the first title that is not
\* empty and the first price that could be parsed, a later strategy being
\* used whenever every earlier one yielded nothing
C26_FirstStrategyThatYields ==
    extracted # NULL =>
        LET listings == FirstListings(search_page)
            with_car == { p \in 1..Len(listings) :
                        /\ listings[p].href # NULL
                        /\ Contains(Val(listings[p].href), "/v/auto-s/")
                        /\ FirstTitle(listings[p]) # "" }
        IN  /\ Len(Val(extracted)) = Cardinality(with_car)
            /\ \A p \in with_car :
                 /\ Val(extracted)[1].title = FirstTitle(listings[p])
                 /\ Val(extracted)[1].price = FirstPrice(listings[p])

\* C22: a fetch_live_market_price call searches exactly when the key
\* (lower-case make, lower-case model, year) is not in the cache, and then
\* puts the key into the cache whatever the search gave; a call whose key
\* is cached returns the cached value; no call removes or changes a cached
\* entry.  So each key is searched at most once.
C22_OneSearchPerKey ==
    [][/\ \A k \in DOMAIN price_cache :
            k \in DOMAIN price_cache' /\ price_cache'[k] = price_cache[k]
       /\ (last'.op = "fetch_live_market_price" /\ last' # last) =>
            LET key == << Lower(last'.asked[1]), Lower(last'.asked[2]),
                          query.year >>
            IN  /\ last'.searched <=> key \notin DOMAIN price_cache
                /\ key \in DOMAIN price_cache'
                /\ price_cache'[key] = last'.result
                /\ key \in DOMAIN price_cache =>
                       last'.result = price_cache[key]]_vars

\* a call spelled with capitals found the key cached by a search that had
\* found nothing, and returned None without searching
C22_Witness ==
    /\ last.op = "fetch_live_market_price"
    /\ last.asked = << "Volkswagen", "Polo" >>
    /\ ~last.searched
    /\ << "volkswagen", "polo", query.year >> \in DOMAIN price_cache
    /\ last.result = NULL

\* the years the static estimate is examined for: three years of
\* depreciation keep every product below 2^31
StaticYears == 2017..2024

\* whether cents is base euros times 0.9^max(0, 2020 - year), in whole cents
IsDepreciated(cents, base, year) ==
    LET d == Max(0, baseline_year - year)
    IN  /\ cents * Pow(10, d) <= base * 100 * Pow(9, d)
        /\ base * 100 * Pow(9, d) < (cents + 1) * Pow(10, d)

\* C23: without a cached live price get_market_price gives a car of the
\* static table base * 0.9^max(0, 2020 - year): the base price from 2020
\* on, never more than the base price, and no more for an older year than
\* for a younger one
C23_StaticDepreciation ==
    /\ (/\ last.op = "get_market_price"
        /\ CachedLive = NULL
        /\ << query.make, Lower(query.model) >> \in DOMAIN fallback_prices) =>
           /\ last.result # NULL
           /\ IsDepreciated(Val(last.result),
                            fallback_prices[<< query.make, Lower(query.model) >>],
                            query.year)
           /\ query.year >= baseline_year =>
                  Val(last.result) =
                      100 * fallback_prices[<< query.make, Lower(query.model) >>]
    /\ last.op = "get_market_price" =>
         \A key \in DOMAIN fallback_prices : \A y \in StaticYears :
           LET price == get_market_price(price_cache, key[1], key[2], y)
               base == fallback_prices[key]
           IN  << Lower(key[1]), key[2], y >> \notin DOMAIN price_cache =>
                 /\ price # NULL
                 /\ IsDepreciated(Val(price), base, y)
                 /\ Val(price) <= 100 * base
                 /\ y >= baseline_year => Val(price) = 100 * base
                 /\ y - 1 \in StaticYears =>
                       Val(get_market_price(<< >>, key[1], key[2], y - 1))
                           <= Val(price)

\* the lookup of a Volkswagen Polo of 2018 had found nothing, and
\* get_market_price returned 3450 euros * 0.81
C23_Witness ==
    /\ last.op = "get_market_price"
    /\ query = [make |-> "Volkswagen", model |-> "Polo", year |-> 2018]
    /\ << "volkswagen", "polo", 2018 >> \in DOMAIN price_cache
    /\ CachedLive = NULL
    /\ last.result = Some(279450)

\* C24: every execution of _scrape_with_scraper that finishes has closed
\* the scraper's browser and the database session, whichever path it took
C24_ScraperAndSessionReleased ==
    [][(phase = "finally" /\ phase' # "finally") =>
          /\ ~driver'
          /\ ~db_session']_vars

\* C25: a ScrapingSession record is created as running; when the call that
\* created it finishes it is completed or failed with completed_at set, a
\* failed record carries the error message, and a record that is completed
\* or failed keeps its status
C25_SessionRecordLifecycle ==
    [][/\ Len(scraping_sessions') > Len(scraping_sessions) =>
             scraping_sessions'[Len(scraping_sessions')].status = "running"
       /\ (phase = "finally" /\ phase' # "finally") =>
             LET record == scraping_sessions'[Len(scraping_sessions')]
             IN  /\ record.status \in { "completed", "failed" }
                 /\ record.completed_at # NULL
                 /\ record.status = "failed" => record.error_message # NULL
       /\ \A k \in 1..Len(scraping_sessions) :
             scraping_sessions[k].status \in { "completed", "failed" } =>
                 scraping_sessions'[k].status = scraping_sessions[k].status]_vars

\* the callers that are inside run_scraping_job past its guard: the flag
\* is set, the run is executing or its finally block is about to run
InsideJob == { t \in JobCallers : pc[t] \in { "sync", "running", "finally" } }

\* C27: scraping_in_progress is true only while a run_scraping_job call is
\* executing its run; the call resets it when it leaves, also after
\* run_scraping_sync raised; the caller is back where it called from, the
\* scheduler thread in its loop, and the thread ends only on stop
C27_FlagResetOnEveryExit ==
    [][/\ scraping_in_progress' => InsideJob' # { }
       /\ \A t \in JobCallers :
             (pc[t] = "finally" /\ pc'[t] # "finally") =>
                 /\ ~scraping_in_progress'
                 /\ pc'[t] = Home(t)
       /\ (pc["scheduler"] # "exited" /\ pc'["scheduler"] = "exited") =>
             ~running]_vars

\* the first scheduled run raised, the flag was reset, and the next
\* scheduled job has passed the guard and is running
C27_Witness ==
    /\ "scheduler" \in failed_runs
    /\ runs["scheduler"] = 2
    /\ pc["scheduler"] = "running"
    /\ pc["immediate"] = "idle"
    /\ calls["immediate"] = 0
    /\ scraping_in_progress

\* the result dicts of the schadeautos.nl pass in results report no car
SchadeautosReportsNoCar ==
    \A k \in 1..Len(results) :
        results[k].website = "schadeautos.nl" =>
            /\ results[k].cars_found = 0
            /\ results[k].cars_added = 0
            /\ results[k].cars_updated = 0

\* the schadeautos.nl pass fetches no page and hands no car on
SchadeautosFetchesNothing ==
    /\ (website = "schadeautos.nl" /\ phase \in { "sa_terms", "persist" }) =>
          searched = << >>
    /\ (website = "schadeautos.nl" /\ phase = "persist") =>
          /\ scraped_cars = << >>
          /\ todo = << >>

\* C28 as stated: the schadeautos.nl pass of every run fetches nothing and
\* reports cars_found = cars_added = cars_updated = 0 with success = true
C28_SchadeautosPassSucceedsEmpty ==
    /\ SchadeautosFetchesNothing
    /\ SchadeautosReportsNoCar
    /\ \A k \in 1..Len(results) :
          results[k].website = "schadeautos.nl" => results[k].success

\* C28: the schadeautos.nl pass of every run fetches nothing and reports no
\* car found, added or updated; it reports success = true when its record
\* was completed and the browser was closed, and success = false with an
\* error when setup, a commit or close raised
C28_SchadeautosPassIsEmpty ==
    /\ SchadeautosFetchesNothing
    /\ SchadeautosReportsNoCar
    /\ (website = "schadeautos.nl" /\ phase \in { "summary", "done" }) =>
          /\ results[2].website = "schadeautos.nl"
          /\ results[2].success <=>
                (scraping_sessions[2].status = "completed" /\ ~driver)
          /\ results[2].success <=> results[2].error = NULL

\* a run in which Marktplaats returned a car and the schadeautos.nl pass
\* completed with nothing
C28_Witness ==
    /\ phase = "done"
    /\ results[1].cars_found >= 1
    /\ results[2] = Success("schadeautos.nl", 0, 0, 0)
    /\ scraping_sessions[2].status = "completed"
    /\ scraping_sessions[2].cars_found = 0

\* C29: in one MarktplaatsScraper pass the detail page of a URL is fetched
\* at most once; the URL is in seen_urls from the fetch on, and a listing
\* whose fetch returned nothing or raised is in no list of cars
C29_DetailPageFetchedOnce ==
    \A u \in Urls :
        /\ Len(fetched[u]) <= 1
        /\ (fetched[u] # << >> /\ website = "marktplaats.nl"
              /\ phase \in { "terms", "details", "unique" }) => u \in seen_urls
        /\ (fetched[u] # << >> /\ fetched[u][1] # "page") =>
              /\ website = "marktplaats.nl" => CountUrl(all_cars, u) = 0
              /\ CountUrl(scraped_cars, u) = 0

\* a listing that two searches returned, whose only fetch raised, and the
\* pass has returned its cars without it
C29_Witness ==
    /\ website = "marktplaats.nl"
    /\ phase = "persist"
    /\ \E u \in Urls :
          /\ term_hits[u] = 2
          /\ fetched[u] = << "raise" >>
          /\ CountUrl(scraped_cars, u) = 0
    /\ scraped_cars # << >>

\* the URLs of the cars the adapter returned, and the positions in upserts
\* of the upserts of one kind made for them
ScrapedUrls == { scraped_cars[k].url : k \in 1..Len(scraped_cars) }

ScrapedUpserts(kind) ==
    { k \in 1..Len(upserts) :
        upserts[k].kind = kind /\ upserts[k].url \in ScrapedUrls }

\* C30: when _scrape_with_scraper is about to return its success dict,
\* cars_found is the number of scraped cars, every scraped car has at most
\* one upsert, cars_added and cars_updated count the adds and the updates,
\* and their sum is at most cars_found, equal to it exactly when the
\* processing of no scraped car raised
C30_CountsOfSuccessfulPass ==
    (phase = "finally" /\ pending_result # NULL /\ Val(pending_result).success) =>
        LET result == Val(pending_result)
            record == scraping_sessions[Len(scraping_sessions)]
        IN  /\ result.cars_found = Len(scraped_cars)
            /\ \A u \in ScrapedUrls : CountUrl(upserts, u) <= 1
            /\ result.cars_added = Cardinality(ScrapedUpserts("add"))
            /\ result.cars_updated = Cardinality(ScrapedUpserts("update"))
            /\ result.cars_added + result.cars_updated <= result.cars_found
            /\ (result.cars_added + result.cars_updated = result.cars_found)
                  <=> failed_cars \cap ScrapedUrls = { }
            /\ record.cars_found = result.cars_found
            /\ record.cars_added = result.cars_added
            /\ record.cars_updated = result.cars_updated

\* a pass that returned two cars: one was updated, and the processing of
\* the other raised
C30_Witness ==
    /\ phase = "finally"
    /\ pending_result # NULL
    /\ Val(pending_result).success
    /\ Val(pending_result).cars_found = 2
    /\ Val(pending_result).cars_added = 0
    /\ Val(pending_result).cars_updated = 1
    /\ Cardinality(failed_cars) = 1

====
